---- MODULE Spec2Model ----
(***************************************************************************)
(* The trading pipeline of the Polymarket trading bot: the Risk Manager    *)
(* (services/risk-manager.ts), the Order Manager (services/order-manager), *)
(* the Store (core/store.ts) and the engine's event handlers, start and    *)
(* stop (bot/engine.ts), on the single event loop of the host.             *)
(*                                                                         *)
(* Every async method is cut at its awaits: the part up to the first await *)
(* of an exchange call is one atomic step (the event loop runs it without  *)
(* interruption, handlers of the events it emits included), the part after *)
(* the await is a second step taken when the exchange answers.  Tasks      *)
(* suspended at an await are the records of `tasks`.                       *)
(*                                                                         *)
(* Units: prices are in cents (40 is 0.40), sizes in shares, notionals and *)
(* PnL in cents.  Values the code computes by division (the average entry  *)
(* price and what derives from it) are exact rationals [n, d].             *)
(***************************************************************************)
EXTENDS Integers, Sequences, FiniteSets, Bags, TLC

\* Bounds of the model: order ids the exchange issues, calls the engine's
\* specification keeps awaiting at once, calls the other specifications keep
\* awaiting at once, rows of the trades table, subscriptions made on the bus
\* from outside a handler, closures made by once, polls of the market data
\* service awaiting fetches at once, calls of a service's start holding a
\* timer or awaiting their first poll, refreshes of the discovery service
\* awaiting the catalog at once, sub-markets of an event.
MaxOrders == 2
MaxTasks == 2
MaxCalls == 1
MaxTrades == 1
MaxHandlers == 2
MaxOnce == 1
MaxPolls == 2
MaxStarts == 2
MaxRefreshes == 2
MaxMarkets == 3
MaxEvals == 1
MaxRuns == 2
MaxEvaluations == 1

VARIABLES
  dryRun,      \* OrderManager.dryRun
  limits,      \* RiskManager.limits
  halted,      \* RiskManager.halted
  haltReason,  \* RiskManager.haltReason
  orders,      \* Store: table orders, order_id -> row
  positions,   \* Store: table positions, token_id -> row
  trades,      \* Store: table trades
  running,     \* TradingBot.running
  tasks,       \* async calls suspended at an await of the exchange client
  op,          \* the operation that made the last step, with its inputs
  ret,         \* what that operation returned
  log,         \* what that step did, in program order
  cleared,     \* a successful cancelAllOrders of stop() or of the breach handler
               \* has completed and no submitOrder was admitted since
  handlers,    \* EventBus.handlers: event type -> the Set, in insertion order
  wrappers,    \* the wrappedHandler closures once() has made, oldest first
  busOp,       \* the EventBus method that made the last step, with its type
  trace,       \* the handler invocations of that step, in the order they began
  fired,       \* per wrappedHandler: how often its user handler was invoked
  subscriptions,  \* MarketDataService.subscriptions
  orderBooks,     \* MarketDataService.orderBooks: token -> cached book
  pollInterval,   \* MarketDataService.pollInterval: "null" or "timer"
  timers,         \* how many timers setInterval made for poll are active
  polls,          \* the poll() executions awaiting fetches of getOrderBook
  mdStopped,      \* stop() was called and start() was not called since
  mdOp,           \* the MarketDataService step that made the last step
  currentGroups,  \* GammaService.currentGroups
  gammaInterval,  \* GammaService.interval: "null" or "timer"
  gammaTimers,    \* how many timers setInterval made for fetchAndUpdate are active
  refreshes,      \* the fetchAndUpdate() executions awaiting the catalog
  gammaOp,        \* the GammaService step that made the last step
  strategies,     \* TradingBot.strategies: the Map, in insertion order
  evals,          \* the evaluateStrategies() executions awaiting a submitOrder
  runs,           \* the start() and stop() executions awaiting a call
  engOp,          \* the TradingBot step that made the last step
  marketGroups,   \* BregmanArbStrategy.marketGroups
  tokenToGroup,   \* BregmanArbStrategy.tokenToGroup: the Map, as token -> group or none
  arbEnabled,     \* BregmanArbStrategy._enabled
  stats,          \* BregmanArbStrategy.stats
  arbOp           \* the BregmanArbStrategy call that made the last step

\* The trading pipeline, a stand-alone EventBus, the market data service, the
\* discovery service, the engine's strategies, the arbitrage strategy, and all
\* together.
pipeVars == <<dryRun, limits, halted, haltReason, orders, positions, trades,
              running, tasks, op, ret, log, cleared>>

busVars == <<handlers, wrappers, busOp, trace, fired>>

mdVars == <<subscriptions, orderBooks, pollInterval, timers, polls, mdStopped, mdOp>>

gammaVars == <<currentGroups, gammaInterval, gammaTimers, refreshes, gammaOp>>

engVars == <<strategies, evals, runs, engOp>>

arbVars == <<marketGroups, tokenToGroup, arbEnabled, stats, arbOp>>

svcVars == <<busVars, mdVars, gammaVars, engVars, arbVars>>

notBus == <<pipeVars, mdVars, gammaVars, engVars, arbVars>>

notMd == <<pipeVars, busVars, gammaVars, engVars, arbVars>>

notGamma == <<pipeVars, busVars, mdVars, engVars, arbVars>>

notArb == <<pipeVars, busVars, mdVars, gammaVars, engVars>>

vars == <<pipeVars, svcVars>>

-----------------------------------------------------------------------------
\* Exact rational arithmetic for the values the code divides.

Abs(x) == IF x < 0 THEN -x ELSE x

RECURSIVE Gcd(_, _)
Gcd(a, b) == IF b = 0 THEN a ELSE Gcd(b, a % b)

Rat(n, d) ==
  LET g == Gcd(Abs(n), Abs(d))
      s == IF d < 0 THEN -1 ELSE 1
  IN  [n |-> (s * n) \div g, d |-> Abs(d) \div g]

RInt(i) == [n |-> i, d |-> 1]
RAdd(x, y) == Rat(x.n * y.d + y.n * x.d, x.d * y.d)
RSub(x, y) == Rat(x.n * y.d - y.n * x.d, x.d * y.d)
RMul(x, y) == Rat(x.n * y.n, x.d * y.d)
RDiv(x, y) == Rat(x.n * y.d, x.d * y.n)

-----------------------------------------------------------------------------
\* Inputs.

Tokens == {"t1"}
Sides == {"BUY", "SELL"}
Prices == {40, 60}
Sizes == {20}
HaltReasons == {"manual"}
Timestamps == {1000}

OrderRequests ==
  [tokenId : Tokens, side : Sides, price : Prices, size : Sizes, type : {"GTC"}]

NoOrder == [tokenId |-> "", side |-> "", price |-> 0, size |-> 0, type |-> ""]

\* An optional value (TypeScript's `x?: T`).
Undef == [def |-> FALSE, v |-> 0]
Some(x) == [def |-> TRUE, v |-> x]

\* RiskLimits of the configuration, in cents.
InitialLimits ==
  [maxPositionSize |-> 1000, maxTotalExposure |-> 2000, maxLossPerTrade |-> 1000,
   maxDailyLoss |-> 500, maxOpenOrders |-> 2]

\* Partial<RiskLimits> values passed to updateLimits.
LimitUpdates == {[maxOpenOrders |-> 1]}

\* Rows passed to Store.saveTrade; `today` is DATE(match_time) = the current date.
TradeInputs ==
  {[side |-> "BUY", size |-> 10, price |-> 60, today |-> TRUE],
   [side |-> "SELL", size |-> 10, price |-> 60, today |-> TRUE],
   [side |-> "BUY", size |-> 10, price |-> 60, today |-> FALSE]}

-----------------------------------------------------------------------------
\* What a step records in `log`.

Emit(type, id, tok) == [k |-> "emit", what |-> type, id |-> id, tok |-> tok]
Client(method, id) == [k |-> "client", what |-> method, id |-> id, tok |-> ""]
StoreWrite(method, id, tok) == [k |-> "store", what |-> method, id |-> id, tok |-> tok]
Call(method, by) == [k |-> "call", what |-> method, id |-> 0, tok |-> by]

Count(s, k, what) == Cardinality({i \in 1..Len(s) : s[i].k = k /\ s[i].what = what})
CountK(s, k) == Cardinality({i \in 1..Len(s) : s[i].k = k})

RECURSIVE SeqOf(_)
SeqOf(S) ==
  IF S = {} THEN <<>>
  ELSE LET m == CHOOSE x \in S : \A y \in S : x <= y
       IN  <<m>> \o SeqOf(S \ {m})

-----------------------------------------------------------------------------
\* Store.

getOpenOrders == {id \in DOMAIN orders : orders[id].status \in {"pending", "open"}}

getAllPositions == {t \in DOMAIN positions : positions[t].size # 0}

RECURSIVE SumTrades(_)
SumTrades(s) ==
  IF s = <<>> THEN 0
  ELSE (IF ~s[1].today THEN 0
        ELSE IF s[1].side = "BUY" THEN -(s[1].size * s[1].price)
        ELSE s[1].size * s[1].price) + SumTrades(Tail(s))

getDailyPnl == SumTrades(trades)

-----------------------------------------------------------------------------
\* Risk Manager.

Reason(kind, detail, value, limit) ==
  [kind |-> kind, detail |-> detail, value |-> value, limit |-> limit]
NoReason == Reason("", "", 0, 0)

RECURSIVE SumPositions(_)
SumPositions(S) ==
  IF S = {} THEN 0
  ELSE LET t == CHOOSE x \in S : TRUE
       IN  Abs(positions[t].size * positions[t].currentPrice) + SumPositions(S \ {t})

RECURSIVE SumOrders(_)
SumOrders(S) ==
  IF S = {} THEN 0
  ELSE LET id == CHOOSE x \in S : TRUE
       IN  orders[id].price * orders[id].size + SumOrders(S \ {id})

getExposureTotal == SumPositions(getAllPositions) + SumOrders(getOpenOrders)

orderValue(order) == order.price * order.size

\* checkOrder without its side effect: the answer, and whether it halts.
checkOrderResult_noHaltedCheck(order) ==
  IF orderValue(order) > limits.maxPositionSize
  THEN [allowed |-> FALSE, halt |-> FALSE,
        reason |-> Reason("maxPositionSize", "", orderValue(order), limits.maxPositionSize)]
  ELSE IF getExposureTotal + orderValue(order) > limits.maxTotalExposure
  THEN [allowed |-> FALSE, halt |-> FALSE,
        reason |-> Reason("maxTotalExposure", "", 0, limits.maxTotalExposure)]
  ELSE IF Cardinality(getOpenOrders) >= limits.maxOpenOrders
  THEN [allowed |-> FALSE, halt |-> FALSE,
        reason |-> Reason("maxOpenOrders", "", 0, limits.maxOpenOrders)]
  ELSE IF getDailyPnl < -limits.maxDailyLoss
  THEN [allowed |-> FALSE, halt |-> TRUE,
        reason |-> Reason("dailyLoss", "", 0, limits.maxDailyLoss)]
  ELSE [allowed |-> TRUE, halt |-> FALSE, reason |-> NoReason]

checkOrderResult_dailyLossNoHalt(order) ==
  IF halted
  THEN [allowed |-> FALSE, halt |-> FALSE,
        reason |-> Reason("halted", haltReason, 0, 0)]
  ELSE IF orderValue(order) > limits.maxPositionSize
  THEN [allowed |-> FALSE, halt |-> FALSE,
        reason |-> Reason("maxPositionSize", "", orderValue(order), limits.maxPositionSize)]
  ELSE IF getExposureTotal + orderValue(order) > limits.maxTotalExposure
  THEN [allowed |-> FALSE, halt |-> FALSE,
        reason |-> Reason("maxTotalExposure", "", 0, limits.maxTotalExposure)]
  ELSE IF Cardinality(getOpenOrders) >= limits.maxOpenOrders
  THEN [allowed |-> FALSE, halt |-> FALSE,
        reason |-> Reason("maxOpenOrders", "", 0, limits.maxOpenOrders)]
  ELSE IF getDailyPnl < -limits.maxDailyLoss
  THEN [allowed |-> FALSE, halt |-> FALSE,
        reason |-> Reason("dailyLoss", "", 0, limits.maxDailyLoss)]
  ELSE [allowed |-> TRUE, halt |-> FALSE, reason |-> NoReason]

\* Lines 49-60 if the daily loss were checked before the open orders.
checkOrderResult_dailyLossFourth(order) ==
  IF halted
  THEN [allowed |-> FALSE, halt |-> FALSE,
        reason |-> Reason("halted", haltReason, 0, 0)]
  ELSE IF orderValue(order) > limits.maxPositionSize
  THEN [allowed |-> FALSE, halt |-> FALSE,
        reason |-> Reason("maxPositionSize", "", orderValue(order), limits.maxPositionSize)]
  ELSE IF getExposureTotal + orderValue(order) > limits.maxTotalExposure
  THEN [allowed |-> FALSE, halt |-> FALSE,
        reason |-> Reason("maxTotalExposure", "", 0, limits.maxTotalExposure)]
  ELSE IF getDailyPnl < -limits.maxDailyLoss
  THEN [allowed |-> FALSE, halt |-> TRUE,
        reason |-> Reason("dailyLoss", "", 0, limits.maxDailyLoss)]
  ELSE IF Cardinality(getOpenOrders) >= limits.maxOpenOrders
  THEN [allowed |-> FALSE, halt |-> FALSE,
        reason |-> Reason("maxOpenOrders", "", 0, limits.maxOpenOrders)]
  ELSE [allowed |-> TRUE, halt |-> FALSE, reason |-> NoReason]

checkOrderResult(order) ==
  IF halted
  THEN [allowed |-> FALSE, halt |-> FALSE,
        reason |-> Reason("halted", haltReason, 0, 0)]
  ELSE IF orderValue(order) > limits.maxPositionSize
  THEN [allowed |-> FALSE, halt |-> FALSE,
        reason |-> Reason("maxPositionSize", "", orderValue(order), limits.maxPositionSize)]
  ELSE IF getExposureTotal + orderValue(order) > limits.maxTotalExposure
  THEN [allowed |-> FALSE, halt |-> FALSE,
        reason |-> Reason("maxTotalExposure", "", 0, limits.maxTotalExposure)]
  ELSE IF Cardinality(getOpenOrders) >= limits.maxOpenOrders
  THEN [allowed |-> FALSE, halt |-> FALSE,
        reason |-> Reason("maxOpenOrders", "", 0, limits.maxOpenOrders)]
  ELSE IF getDailyPnl < -limits.maxDailyLoss
  THEN [allowed |-> FALSE, halt |-> TRUE,
        reason |-> Reason("dailyLoss", "", 0, limits.maxDailyLoss)]
  ELSE [allowed |-> TRUE, halt |-> FALSE, reason |-> NoReason]

-----------------------------------------------------------------------------
\* Tasks suspended at an await, and what a step leaves in op and ret.

Task(kind, by, order, orderId, live) ==
  [kind |-> kind, by |-> by, order |-> order, orderId |-> orderId, live |-> live]

\* `tasks` is a bag: two calls with the same arguments may be in flight.
NoTasks == EmptyBag
One(t) == SetToBag({t})

NoResult ==
  [success |-> FALSE, orderId |-> Undef, filledSize |-> Undef, avgFillPrice |-> Undef]

ZeroPosition ==
  [tokenId |-> "", market |-> "", size |-> 0, avgEntryPrice |-> RInt(0),
   currentPrice |-> 0, unrealizedPnl |-> RInt(0), realizedPnl |-> RInt(0), side |-> ""]

Op(name, by, order, orderId) ==
  [name |-> name, by |-> by, order |-> order, orderId |-> orderId,
   result |-> NoResult, had |-> FALSE, existing |-> ZeroPosition, live |-> {}]

NoId == [kind |-> "none", n |-> 0]
Ret(ok, reason, orderId) ==
  [ok |-> ok, pending |-> FALSE, reason |-> reason, orderId |-> orderId]
Pending == [ok |-> FALSE, pending |-> TRUE, reason |-> NoReason, orderId |-> NoId]

-----------------------------------------------------------------------------
\* Order Manager: cancelAllOrders up to its await, as called by `by`.

cancelAllOrdersCall(by) ==
  IF dryRun
  THEN [log |-> <<>>, tasks |-> NoTasks, done |-> TRUE]
  ELSE [log |-> <<Client("cancelAllOrders", 0)>>,
        tasks |-> One(Task("cancelAll", by, NoOrder, 0, getOpenOrders)),
        done |-> FALSE]

\* Engine: the handler of risk_breach, up to its await.
onRiskBreach ==
  LET c == cancelAllOrdersCall("breach")
  IN  [log |-> <<Call("cancelAllOrders", "breach")>> \o c.log,
       tasks |-> c.tasks, done |-> c.done]

\* EventBus.emit(risk_breach): the handlers run before emit returns.
emitRiskBreach ==
  LET h == onRiskBreach
  IN  [log |-> <<Emit("risk_breach", 0, "")>> \o h.log, tasks |-> h.tasks,
       cleared |-> IF h.done /\ Len(h.log) > 0 THEN TRUE ELSE cleared]

NoEffect == [log |-> <<>>, tasks |-> NoTasks, cleared |-> cleared]

-----------------------------------------------------------------------------
\* Risk Manager: operations.

halt(reason) ==
  /\ halted' = TRUE
  /\ haltReason' = reason
  /\ LET e == emitRiskBreach
     IN  /\ log' = e.log
         /\ tasks' = tasks (+) e.tasks
         /\ cleared' = e.cleared
  /\ op' = Op("halt", reason, NoOrder, 0)
  /\ ret' = Ret(TRUE, NoReason, NoId)
  /\ UNCHANGED <<svcVars, dryRun, limits, orders, positions, trades, running>>

resume ==
  /\ halted' = FALSE
  /\ haltReason' = ""
  /\ op' = Op("resume", "", NoOrder, 0)
  /\ ret' = Ret(TRUE, NoReason, NoId)
  /\ log' = <<>>
  /\ UNCHANGED <<svcVars, dryRun, limits, orders, positions, trades, running, tasks, cleared>>

\* The halt of checkOrder's daily-loss branch, or nothing.
haltIf(rc) ==
  /\ halted' = IF rc.halt THEN TRUE ELSE halted
  /\ haltReason' = IF rc.halt THEN "Daily loss limit exceeded" ELSE haltReason

checkOrder(order) ==
  LET rc == checkOrderResult(order)
      e == IF rc.halt THEN emitRiskBreach ELSE NoEffect
  IN  /\ haltIf(rc)
      /\ log' = e.log
      /\ tasks' = tasks (+) e.tasks
      /\ cleared' = e.cleared
      /\ op' = Op("checkOrder", "", order, 0)
      /\ ret' = Ret(rc.allowed, rc.reason, NoId)
      /\ UNCHANGED <<svcVars, dryRun, limits, orders, positions, trades, running>>

updateLimits(l) ==
  /\ limits' = [f \in DOMAIN limits |-> IF f \in DOMAIN l THEN l[f] ELSE limits[f]]
  /\ op' = Op("updateLimits", "", NoOrder, 0)
  /\ ret' = Ret(TRUE, NoReason, NoId)
  /\ log' = <<>>
  /\ UNCHANGED <<svcVars, dryRun, halted, haltReason, orders, positions, trades, running,
                 tasks, cleared>>

\* Store.saveTrade, called on the store directly (no component of the
\* pipeline writes trades).
saveTrade(t) ==
  /\ trades' = Append(trades, t)
  /\ op' = Op("saveTrade", "", NoOrder, 0)
  /\ ret' = Ret(TRUE, NoReason, NoId)
  /\ log' = <<StoreWrite("saveTrade", 0, "")>>
  /\ UNCHANGED <<svcVars, dryRun, limits, halted, haltReason, orders, positions, running,
                 tasks, cleared>>

\* EventBus.emit(risk_breach) by any holder of the bus.
emitRiskBreachEvent ==
  /\ LET e == emitRiskBreach
     IN  /\ log' = e.log
         /\ tasks' = tasks (+) e.tasks
         /\ cleared' = e.cleared
  /\ op' = Op("emit", "risk_breach", NoOrder, 0)
  /\ ret' = Ret(TRUE, NoReason, NoId)
  /\ UNCHANGED <<svcVars, dryRun, limits, halted, haltReason, orders, positions, trades, running>>

-----------------------------------------------------------------------------
\* Order Manager: updatePosition.

signed(side, size) == IF side = "BUY" THEN size ELSE -size

\* Lines 138-147: no position yet, or a flat one.
newPosition(tokenId, side, size, price) ==
  [tokenId |-> tokenId, market |-> "", size |-> signed(side, size),
   avgEntryPrice |-> RInt(price), currentPrice |-> price,
   unrealizedPnl |-> RInt(0), realizedPnl |-> RInt(0), side |-> side]

\* Lines 152-159: a fill on the side of the position.
sameSidePosition(existing, side, size, price) ==
  LET totalSize == existing.size + signed(side, size)
      totalCost == RAdd(RMul(RInt(existing.size), existing.avgEntryPrice),
                        RInt(size * price))
  IN  [existing EXCEPT !.size = totalSize,
                       !.avgEntryPrice = RDiv(totalCost, RInt(Abs(totalSize))),
                       !.currentPrice = price]

\* Lines 161-169: a fill on the other side.
oppositeSidePosition_keepsSide(existing, side, size, price) ==
  LET netSize == existing.size + signed(side, size)
      realizedPnl ==
        RAdd(existing.realizedPnl,
             RMul(RMul(RInt(size), RSub(RInt(price), existing.avgEntryPrice)),
                  RInt(IF existing.side = "BUY" THEN 1 ELSE -1)))
  IN  [existing EXCEPT !.size = netSize, !.realizedPnl = realizedPnl,
                       !.currentPrice = price]

oppositeSidePosition(existing, side, size, price) ==
  LET netSize == existing.size + signed(side, size)
      realizedPnl ==
        RAdd(existing.realizedPnl,
             RMul(RMul(RInt(size), RSub(RInt(price), existing.avgEntryPrice)),
                  RInt(IF existing.side = "BUY" THEN 1 ELSE -1)))
  IN  [existing EXCEPT !.size = netSize, !.realizedPnl = realizedPnl,
                       !.currentPrice = price,
                       !.side = IF netSize >= 0 THEN "BUY" ELSE "SELL"]

\* Line 173.
markUnrealized_stale(p) == p

markUnrealized(p) ==
  [p EXCEPT !.unrealizedPnl =
     RMul(RSub(RInt(p.currentPrice), p.avgEntryPrice), RInt(p.size))]

\* The position updatePosition saves for a fill.
updatePosition(tokenId, side, size, price) ==
  LET has == tokenId \in DOMAIN positions
      existing == IF has THEN positions[tokenId] ELSE ZeroPosition
  IN  markUnrealized(
        IF ~has \/ existing.size = 0
        THEN newPosition(tokenId, side, size, price)
        ELSE IF existing.side = side
        THEN sameSidePosition(existing, side, size, price)
        ELSE oppositeSidePosition(existing, side, size, price))

-----------------------------------------------------------------------------
\* Exchange client: what placeOrder may answer.  The exchange names a placed
\* order with an id it has not used before.

nextOrderId == Cardinality(DOMAIN orders) + 1

\* filledSize and avgFillPrice of an answer: nothing filled, half, all.
Fills(order) ==
  {<<Undef, Undef>>, <<Some(0), Undef>>}
    \cup {<<Some(n), p>> : n \in {order.size \div 2, order.size},
                           p \in {Undef, Some(60)}}

PlaceResults(order) ==
  {NoResult,
   [success |-> TRUE, orderId |-> Undef, filledSize |-> Some(order.size),
    avgFillPrice |-> Undef]}
  \cup
  {[success |-> TRUE, orderId |-> Some(i), filledSize |-> f[1], avgFillPrice |-> f[2]] :
     i \in {nextOrderId}, f \in Fills(order)}

-----------------------------------------------------------------------------
\* Order Manager: submitOrder.

\* Line 46.
riskRejects_never(rc) == FALSE

riskRejects(rc) == ~rc.allowed

\* Line 52.
dryRunOrderId(now) == [kind |-> "dry", n |-> now]

\* Lines 43-57: up to the await of client.placeOrder, as called by `by`: what
\* it does to the Risk Manager, the store and the exchange client.
submitOrderCall(by, order, now) ==
  LET rc == checkOrderResult(order)
      e == IF rc.halt THEN emitRiskBreach ELSE NoEffect
      rejected == riskRejects(rc)
  IN  /\ haltIf(rc)
      /\ op' = Op("submitOrder", by, order, 0)
      /\ IF rejected
         THEN /\ ret' = Ret(FALSE, rc.reason, NoId)
              /\ log' = e.log
              /\ tasks' = tasks (+) e.tasks
              /\ cleared' = e.cleared
         ELSE IF dryRun
         THEN /\ ret' = Ret(TRUE, NoReason, dryRunOrderId(now))
              /\ log' = e.log
              /\ tasks' = tasks (+) e.tasks
              /\ cleared' = FALSE
         ELSE /\ ret' = Pending
              /\ log' = e.log \o <<Client("placeOrder", 0)>>
              /\ tasks' = tasks (+) One(Task("submit", by, order, 0, {}))
              /\ cleared' = FALSE
      /\ UNCHANGED <<dryRun, limits, orders, positions, trades, running>>

\* submitOrder called on the Order Manager directly.
submitOrder(order, now) ==
  /\ submitOrderCall("", order, now)
  /\ UNCHANGED svcVars

\* Line 59.
placed(result) == result.success /\ result.orderId.def

\* Line 64.
filled(result) == result.filledSize.def /\ result.filledSize.v > 0

\* Line 65: avgFillPrice ?? order.price.
fillPrice(order, result) ==
  IF result.avgFillPrice.def THEN result.avgFillPrice.v ELSE order.price

\* Line 60.
saveOrder(order, orderId, status) ==
  orders @@ (orderId :>
    [orderId |-> orderId, tokenId |-> order.tokenId, side |-> order.side,
     price |-> order.price, size |-> order.size, type |-> order.type,
     status |-> status])

\* Lines 57-69: after the await of client.placeOrder: what it does to the
\* store.  The handlers of order_filled are the engine's (onOrderFilled).
submitOrderAfterAwait(t, result) ==
  LET order == t.order
      tok == order.tokenId
      id == result.orderId.v
      has == tok \in DOMAIN positions
  IN  /\ t.kind = "submit"
      /\ tasks' = tasks (-) One(t)
      /\ op' = [Op("submitOrderResume", t.by, order, IF placed(result) THEN id ELSE 0)
                  EXCEPT !.result = result, !.had = has,
                         !.existing = IF has THEN positions[tok] ELSE ZeroPosition]
      /\ ret' = Ret(result.success, NoReason,
                    IF result.orderId.def THEN [kind |-> "exchange", n |-> id] ELSE NoId)
      /\ IF placed(result)
         THEN /\ orders' = saveOrder(order, id, "open")
              /\ IF filled(result)
                 THEN /\ positions' =
                           [x \in DOMAIN positions \cup {tok} |->
                              IF x = tok
                              THEN updatePosition(tok, order.side, result.filledSize.v,
                                                  fillPrice(order, result))
                              ELSE positions[x]]
                      /\ log' = <<StoreWrite("saveOrder", id, tok),
                                  Emit("order_filled", id, tok),
                                  StoreWrite("savePosition", 0, tok),
                                  Emit("position_changed", 0, tok)>>
                 ELSE /\ positions' = positions
                      /\ log' = <<StoreWrite("saveOrder", id, tok),
                                  Emit("order_filled", id, tok)>>
         ELSE /\ log' = <<>>
              /\ UNCHANGED <<orders, positions>>
      /\ UNCHANGED <<dryRun, limits, halted, haltReason, trades, running, cleared>>

\* The continuation of a submitOrder called on the Order Manager directly,
\* with no strategy registered.
submitOrderResume(t, result) ==
  /\ t.by = ""
  /\ submitOrderAfterAwait(t, result)
  /\ UNCHANGED svcVars

-----------------------------------------------------------------------------
\* Order Manager: cancelOrder, cancelAllOrders, syncOrders.

\* Store.updateOrderStatus on a table: an UPDATE of the row, if there is one.
updateOrderStatus(tbl, orderId, status) ==
  IF orderId \in DOMAIN tbl THEN [tbl EXCEPT ![orderId].status = status] ELSE tbl

\* Lines 72-78: up to the await of client.cancelOrder.
cancelOrder_ignoresDryRun(orderId) ==
  /\ op' = Op("cancelOrder", "", NoOrder, orderId)
  /\ ret' = Pending
  /\ log' = <<Client("cancelOrder", orderId)>>
  /\ tasks' = tasks (+) One(Task("cancelOne", "", NoOrder, orderId, {}))
  /\ UNCHANGED <<svcVars, dryRun, limits, halted, haltReason, orders, positions, trades,
                 running, cleared>>

cancelOrder(orderId) ==
  /\ op' = Op("cancelOrder", "", NoOrder, orderId)
  /\ IF dryRun
     THEN /\ ret' = Ret(TRUE, NoReason, NoId)
          /\ log' = <<>>
          /\ tasks' = tasks
     ELSE /\ ret' = Pending
          /\ log' = <<Client("cancelOrder", orderId)>>
          /\ tasks' = tasks (+) One(Task("cancelOne", "", NoOrder, orderId, {}))
  /\ UNCHANGED <<svcVars, dryRun, limits, halted, haltReason, orders, positions, trades,
                 running, cleared>>

\* Lines 78-83: after the await.
cancelOrderResume(t, success) ==
  /\ t.kind = "cancelOne"
  /\ tasks' = tasks (-) One(t)
  /\ op' = Op("cancelOrderResume", "", NoOrder, t.orderId)
  /\ ret' = Ret(success, NoReason, NoId)
  /\ IF success
     THEN /\ orders' = updateOrderStatus(orders, t.orderId, "cancelled")
          /\ log' = <<StoreWrite("updateOrderStatus", t.orderId, ""),
                      Emit("order_cancelled", t.orderId, "")>>
     ELSE /\ orders' = orders
          /\ log' = <<>>
  /\ UNCHANGED <<svcVars, dryRun, limits, halted, haltReason, positions, trades, running, cleared>>

\* Lines 86-92: cancelAllOrders called on the Order Manager directly.
cancelAllOrders ==
  /\ LET c == cancelAllOrdersCall("api")
     IN  /\ log' = c.log
         /\ tasks' = tasks (+) c.tasks
         /\ ret' = IF c.done THEN Ret(TRUE, NoReason, NoId) ELSE Pending
  /\ op' = Op("cancelAllOrders", "api", NoOrder, 0)
  /\ UNCHANGED <<svcVars, dryRun, limits, halted, haltReason, orders, positions, trades,
                 running, cleared>>

RECURSIVE markAll(_, _, _)
markAll(tbl, ids, status) ==
  IF ids = <<>> THEN tbl
  ELSE markAll(updateOrderStatus(tbl, Head(ids), status), Tail(ids), status)

\* Lines 93-98: the orders cancelAllOrders marks once the exchange agreed.
cancelAllTargets_firstOnly(success) ==
  IF success /\ getOpenOrders # {} THEN <<Head(SeqOf(getOpenOrders))>> ELSE <<>>

cancelAllTargets(success) == IF success THEN SeqOf(getOpenOrders) ELSE <<>>

\* Lines 92-99: after the await of client.cancelAllOrders: what it does to
\* the store.
cancelAllOrdersAfterAwait(t, success) ==
  LET ids == cancelAllTargets(success)
  IN  /\ t.kind = "cancelAll"
      /\ tasks' = tasks (-) One(t)
      /\ op' = [Op("cancelAllOrdersResume", t.by, NoOrder, 0) EXCEPT !.live = t.live]
      /\ ret' = Ret(success, NoReason, NoId)
      /\ orders' = markAll(orders, ids, "cancelled")
      /\ log' = [i \in 1..Len(ids) |-> StoreWrite("updateOrderStatus", ids[i], "")]
      /\ cleared' = IF success /\ t.by \in {"stop", "breach"} THEN TRUE ELSE cleared
      /\ UNCHANGED <<dryRun, limits, halted, haltReason, positions, trades, running>>

cancelAllOrdersResume(t, success) ==
  /\ cancelAllOrdersAfterAwait(t, success)
  /\ UNCHANGED svcVars

\* Line 121: syncOrders up to the await of client.getOpenOrders.
syncOrdersCall(by) ==
  /\ op' = Op("syncOrders", by, NoOrder, 0)
  /\ ret' = Pending
  /\ log' = <<Client("getOpenOrders", 0)>>
  /\ tasks' = tasks (+) One(Task("sync", by, NoOrder, 0, {}))
  /\ UNCHANGED <<dryRun, limits, halted, haltReason, orders, positions, trades, cleared>>

syncOrders ==
  /\ syncOrdersCall("api")
  /\ UNCHANGED <<svcVars, running>>

syncTargets_allLive(remoteIds) == SeqOf(getOpenOrders)

\* Lines 122-127: the local open orders the exchange did not list.
syncTargets(remoteIds) == SeqOf(getOpenOrders \ remoteIds)

\* Lines 122-130: after the await; remoteIds are the ids the exchange listed.
\* When start() awaited it (engine.ts line 102), running is set.
syncOrdersAfterAwait(t, remoteIds) ==
  LET ids == syncTargets(remoteIds)
  IN  /\ t.kind = "sync"
      /\ tasks' = tasks (-) One(t)
      /\ op' = [Op("syncOrdersResume", t.by, NoOrder, 0) EXCEPT !.live = remoteIds]
      /\ ret' = Ret(TRUE, NoReason, NoId)
      /\ orders' = markAll(orders, ids, "filled_or_cancelled")
      /\ log' = [i \in 1..Len(ids) |-> StoreWrite("updateOrderStatus", ids[i], "")]
      /\ running' = IF t.by = "start" THEN TRUE ELSE running
      /\ UNCHANGED <<dryRun, limits, halted, haltReason, positions, trades, cleared>>

syncOrdersResume(t, remoteIds) ==
  /\ syncOrdersAfterAwait(t, remoteIds)
  /\ UNCHANGED svcVars

-----------------------------------------------------------------------------
\* Engine: start and stop.

\* Lines 85-100: start() up to the await inside syncOrders.
start ==
  /\ ~running
  /\ syncOrdersCall("start")
  /\ UNCHANGED <<svcVars, running>>

\* Lines 106-114: stop() up to the await inside cancelAllOrders.
stop ==
  /\ running
  /\ running' = FALSE
  /\ LET c == cancelAllOrdersCall("stop")
     IN  /\ log' = <<Call("cancelAllOrders", "stop")>> \o c.log
         /\ tasks' = tasks (+) c.tasks
         /\ cleared' = IF c.done THEN TRUE ELSE cleared
  /\ op' = Op("stop", "", NoOrder, 0)
  /\ ret' = Ret(TRUE, NoReason, NoId)
  /\ UNCHANGED <<svcVars, dryRun, limits, halted, haltReason, orders, positions, trades>>

-----------------------------------------------------------------------------
\* EventBus (core/events.ts), on its own: user handlers subscribe, unsubscribe
\* and emit.  A user handler is named by what its body does with the event.

EventTypes == {"order_filled", "risk_breach"}

\* returns: returns.  throws: throws.  offReturns: calls off(type, returns).
\* onReturns: calls on(type, returns).  emits: calls emit(type) again.
UserHandlers == {"returns", "throws", "offReturns", "onReturns", "emits"}

\* An element of the Set of a type: the handler h itself (w = 0), or the
\* wrappedHandler closure number w that once(type, h) made.
Entry(h, w) == [h |-> h, w |-> w]

\* One invocation of a user handler.
Inv(type, h, w, depth) == [type |-> type, h |-> h, w |-> w, depth |-> depth]

BusOp(name, type) == [name |-> name, type |-> type]

\* The bus while a method runs.  A Set iterates in insertion order over the
\* elements as they are when it reaches them: n numbers the insertions, so
\* that an element deleted and added again is a later element.
Stamped(hs) ==
  [t \in DOMAIN hs |->
     [i \in 1..Len(hs[t]) |-> [h |-> hs[t][i].h, w |-> hs[t][i].w, n |-> i]]]

Unstamped(subs) ==
  [t \in DOMAIN subs |->
     [i \in 1..Len(subs[t]) |-> Entry(subs[t][i].h, subs[t][i].w)]]

NextStamp(hs) ==
  LET lens == {Len(hs[t]) : t \in DOMAIN hs}
  IN  1 + CHOOSE m \in lens : \A x \in lens : x <= m

Bus == [subs |-> Stamped(handlers), next |-> NextStamp(handlers),
        trace |-> <<>>, fired |-> fired]

\* Lines 33-38: Set.add.
busOn(b, type, h, w) ==
  IF \E i \in 1..Len(b.subs[type]) : b.subs[type][i].h = h /\ b.subs[type][i].w = w
  THEN b
  ELSE [b EXCEPT !.subs[type] = Append(@, [h |-> h, w |-> w, n |-> b.next]),
                 !.next = @ + 1]

\* Lines 41-43: Set.delete.
busOff(b, type, h, w) ==
  [b EXCEPT !.subs[type] = SelectSeq(@, LAMBDA e : ~(e.h = h /\ e.w = w))]

\* Line 47: the closure of once takes itself out of the Set before it calls
\* the handler; a handler subscribed with on stays.
wrappedOff_never(b, type, e) == b

wrappedOff(b, type, e) == IF e.w > 0 THEN busOff(b, type, e.h, e.w) ELSE b

RECURSIVE busEmit(_, _, _, _)

\* What the body of a user handler does to the bus.  A nested emit runs to its
\* end inside the handler; it catches what its own handlers throw.  The depth
\* test is never false while every entry of an emitting handler is a once
\* closure: each level of nesting takes one closure out of the Set.
handlerBody(b, type, h, depth) ==
  CASE h = "returns" -> b
    [] h = "throws" -> b
    [] h = "offReturns" -> busOff(b, type, "returns", 0)
    [] h = "onReturns" -> busOn(b, type, "returns", 0)
    [] h = "emits" -> IF depth < MaxHandlers THEN busEmit(b, type, 0, depth + 1) ELSE b

\* Line 24, and lines 46-49 for a closure of once.
invoke(b, type, e, depth) ==
  LET called == [b EXCEPT !.trace = Append(@, Inv(type, e.h, e.w, depth)),
                          !.fired = IF e.w > 0 THEN [@ EXCEPT ![e.w] = @ + 1] ELSE @]
  IN  handlerBody(wrappedOff(called, type, e), type, e.h, depth)

\* Lines 15-31: the for..of over the Set of the type, from the element after
\* the one visited last.  The loop goes on after a handler returned and after
\* it threw: the catch of lines 25-27 logs and falls through.
busEmit(b, type, last, depth) ==
  LET rest == SelectSeq(b.subs[type], LAMBDA e : e.n > last)
  IN  IF rest = <<>> THEN b
      ELSE LET e == Head(rest)
           IN  busEmit(invoke(b, type, e, depth), type, e.n, depth)

\* on(type, handler), lines 33-39.
on(type, h) ==
  /\ handlers' = Unstamped(busOn(Bus, type, h, 0).subs)
  /\ busOp' = BusOp("on", type)
  /\ trace' = <<>>
  /\ UNCHANGED <<notBus, wrappers, fired>>

\* off(type, handler), lines 41-43; the closure that on returns is this call.
off(type, h) ==
  /\ handlers' = Unstamped(busOff(Bus, type, h, 0).subs)
  /\ busOp' = BusOp("off", type)
  /\ trace' = <<>>
  /\ UNCHANGED <<notBus, wrappers, fired>>

\* once(type, handler), lines 45-51: a new closure is subscribed.  early
\* records that the closure once returned was called before the handler ran.
once(type, h) ==
  LET w == Len(wrappers) + 1
  IN  /\ handlers' = Unstamped(busOn(Bus, type, h, w).subs)
      /\ wrappers' = Append(wrappers, [type |-> type, h |-> h, early |-> FALSE])
      /\ fired' = Append(fired, 0)
      /\ busOp' = BusOp("once", type)
      /\ trace' = <<>>
      /\ UNCHANGED notBus

\* The closure that once(type, handler) returned, lines 38 and 50:
\* off(type, wrappedHandler).
unsubscribe(w) ==
  /\ handlers' = Unstamped(busOff(Bus, wrappers[w].type, wrappers[w].h, w).subs)
  /\ wrappers' = [wrappers EXCEPT ![w].early = @ \/ fired[w] = 0]
  /\ busOp' = BusOp("unsubscribe", wrappers[w].type)
  /\ trace' = <<>>
  /\ UNCHANGED <<notBus, fired>>

\* emit(type, data), lines 15-31, with every handler it runs.
emit(type) ==
  LET b == busEmit(Bus, type, 0, 0)
  IN  /\ handlers' = Unstamped(b.subs)
      /\ trace' = b.trace
      /\ fired' = b.fired
      /\ busOp' = BusOp("emit", type)
      /\ UNCHANGED <<notBus, wrappers>>

InitBus ==
  /\ handlers = [t \in EventTypes |-> <<>>]
  /\ wrappers = <<>>
  /\ fired = <<>>
  /\ busOp = BusOp("", "")
  /\ trace = <<>>

-----------------------------------------------------------------------------
\* MarketDataService (services/market-data.ts).  Books are named by number.

MdTokens == {"t1", "t2"}
Books == {1, 2}
NoBook == 0

\* What an awaited client.getOrderBook settles with.
FetchFailed == 0
FetchResults == Books \cup {FetchFailed}

\* A poll() execution: who called it and the tokens whose fetch is awaited.
Poll(by, pending) == [by |-> by, pending |-> pending]

MdOp(name, by, token, result, emitted) ==
  [name |-> name, by |-> by, token |-> token, result |-> result, emitted |-> emitted]

\* Line 251: the tokens of a poll are the subscriptions when it begins.
pollTokens_none(subs) == {}

pollTokens(subs) == subs

\* Lines 260-265: the catch of one token ends that token's task only, and
\* Promise.all goes on awaiting the others.
afterFailure_abortsBatch(pending, token) == {}

afterFailure(pending, token) == pending \ {token}

\* subscribe(tokenIds), lines 214-219.
mdSubscribe(tokenIds) ==
  /\ subscriptions' = subscriptions \cup tokenIds
  /\ mdOp' = MdOp("subscribe", "", "", 0, <<>>)
  /\ UNCHANGED <<notMd, orderBooks, pollInterval, timers, polls, mdStopped>>

\* unsubscribe(tokenIds), lines 221-226.
mdUnsubscribe(tokenIds) ==
  /\ subscriptions' = subscriptions \ tokenIds
  /\ orderBooks' = [t \in MdTokens |-> IF t \in tokenIds THEN NoBook ELSE orderBooks[t]]
  /\ mdOp' = MdOp("unsubscribe", "", "", 0, <<>>)
  /\ UNCHANGED <<notMd, pollInterval, timers, polls, mdStopped>>

\* start() up to its await, lines 236-238, with poll() up to its await, lines
\* 251-257: with no subscription poll returns at once, and start still
\* resumes in a later step.
mdStartCall ==
  /\ polls' = polls (+) One(Poll("start", pollTokens(subscriptions)))
  /\ mdStopped' = FALSE
  /\ mdOp' = MdOp("start", "start", "", 0, <<>>)
  /\ UNCHANGED <<subscriptions, orderBooks, pollInterval, timers>>

mdStart ==
  /\ mdStartCall
  /\ UNCHANGED notMd

\* start() after its await, line 239.
mdStartAfterAwait(p) ==
  /\ p.by = "start" /\ p.pending = {}
  /\ polls' = polls (-) One(p)
  /\ timers' = timers + 1
  /\ pollInterval' = "timer"
  /\ mdOp' = MdOp("startResume", "start", "", 0, <<>>)
  /\ UNCHANGED <<subscriptions, orderBooks, mdStopped>>

mdStartResume(p) ==
  /\ mdStartAfterAwait(p)
  /\ UNCHANGED notMd

\* stop(), lines 242-248.
mdStopCall ==
  /\ IF pollInterval = "timer"
     THEN timers' = timers - 1 /\ pollInterval' = "null"
     ELSE UNCHANGED <<timers, pollInterval>>
  /\ mdStopped' = TRUE
  /\ mdOp' = MdOp("stop", "", "", 0, <<>>)
  /\ UNCHANGED <<subscriptions, orderBooks, polls>>

mdStop ==
  /\ mdStopCall
  /\ UNCHANGED notMd

\* An active timer fires, line 239: poll() up to its await, lines 251-257.
poll ==
  /\ timers > 0
  /\ polls' = IF pollTokens(subscriptions) = {} THEN polls
              ELSE polls (+) One(Poll("tick", pollTokens(subscriptions)))
  /\ mdOp' = MdOp("poll", "tick", "", 0, <<>>)
  /\ UNCHANGED <<notMd, subscriptions, orderBooks, pollInterval, timers, mdStopped>>

\* The fetch of one token of one poll settles, lines 257-265.  A poll of the
\* timer ends with its last token; a poll of start is left for start to resume.
getOrderBookResume(p, token, result) ==
  LET ok == result # FetchFailed
      pending == IF ok THEN p.pending \ {token} ELSE afterFailure(p.pending, token)
      rest == polls (-) One(p)
  IN  /\ token \in p.pending
      /\ polls' = IF pending = {} /\ p.by = "tick" THEN rest
                  ELSE rest (+) One(Poll(p.by, pending))
      /\ orderBooks' = IF ok THEN [orderBooks EXCEPT ![token] = result] ELSE orderBooks
      /\ mdOp' = MdOp("getOrderBook", p.by, token, result,
                      IF ok THEN <<Emit("orderbook_update", result, token)>> ELSE <<>>)
      /\ UNCHANGED <<notMd, subscriptions, pollInterval, timers, mdStopped>>

InitMarketData ==
  /\ subscriptions = {}
  /\ orderBooks = [t \in MdTokens |-> NoBook]
  /\ pollInterval = "null"
  /\ timers = 0
  /\ polls = EmptyBag
  /\ mdStopped = FALSE
  /\ mdOp = MdOp("", "", "", 0, <<>>)

-----------------------------------------------------------------------------
\* GammaService (services/gamma.ts): market groups out of the catalog's events.

CondIds == {"c1", "c2"}

\* The text of GammaMarket.clobTokenIds, by what JSON.parse makes of it: an
\* array of token ids, the value null, a number, or a syntax error.
Raw(json, items) == [json |-> json, items |-> items]

Payloads ==
  {Raw("array", items) : items \in {<<>>, <<"a">>, <<"a", "b">>, <<"c", "d">>, <<"a", "b", "c">>}}
    \cup {Raw("unparsable", <<>>), Raw("null", <<>>), Raw("number", <<>>)}

GammaMarkets == [conditionId : CondIds, clobTokenIds : Payloads]

GammaEvent(negRisk, markets) == [negRisk |-> negRisk, markets |-> markets]

MarketGroup(conditionId, tokenIds) == [conditionId |-> conditionId, tokenIds |-> tokenIds]

\* Lines 153-159: what JSON.parse returns, and [] when it throws.
parseClobTokenIds(raw) ==
  IF raw.json = "unparsable"
  THEN [kind |-> "array", items |-> <<>>]
  ELSE [kind |-> raw.json, items |-> raw.items]

\* value.length: of null it throws a TypeError, of a number it is undefined,
\* and undefined is neither > 0 nor === 2.
Undefined == -1
lengthThrows(value) == value.kind = "null"
lengthOf(value) == IF value.kind = "array" THEN Len(value.items) ELSE Undefined

\* What a function returned, or that it threw.
Returned(value) == [threw |-> FALSE, value |-> value]
Threw == [threw |-> TRUE, value |-> <<>>]

\* Lines 99-105: the first token of each sub-market that has one.
RECURSIVE yesTokens(_)
yesTokens(markets) ==
  IF markets = <<>> THEN Returned(<<>>)
  ELSE LET clobTokenIds == parseClobTokenIds(Head(markets).clobTokenIds)
           rest == yesTokens(Tail(markets))
       IN  IF lengthThrows(clobTokenIds) \/ rest.threw THEN Threw
           ELSE IF lengthOf(clobTokenIds) > 0
                THEN Returned(<<clobTokenIds.items[1]>> \o rest.value)
                ELSE rest

\* Lines 95-122: the groups of one event, none or one.
extractEvent(event) ==
  IF Len(event.markets) = 0 THEN Returned(<<>>)
  ELSE IF event.negRisk /\ Len(event.markets) > 1
  THEN LET tokenIds == yesTokens(event.markets)
       IN  IF tokenIds.threw THEN Threw
           ELSE IF Len(tokenIds.value) >= 2
                THEN Returned(<<MarketGroup(event.markets[1].conditionId, tokenIds.value)>>)
                ELSE Returned(<<>>)
  ELSE IF Len(event.markets) = 1
  THEN LET market == event.markets[1]
           clobTokenIds == parseClobTokenIds(market.clobTokenIds)
       IN  IF lengthThrows(clobTokenIds) THEN Threw
           ELSE IF lengthOf(clobTokenIds) = 2
                THEN Returned(<<MarketGroup(market.conditionId, clobTokenIds.items)>>)
                ELSE Returned(<<>>)
  ELSE Returned(<<>>)

\* extractMarketGroups(events), lines 91-126.
RECURSIVE extractMarketGroups(_)
extractMarketGroups(events) ==
  IF events = <<>> THEN Returned(<<>>)
  ELSE LET first == extractEvent(Head(events))
           rest == IF first.threw THEN Threw ELSE extractMarketGroups(Tail(events))
       IN  IF first.threw \/ rest.threw THEN Threw
           ELSE Returned(first.value \o rest.value)

\* Strings are sequences of symbols: an id is one symbol, a separator another.
\* Alphabet lists the symbols in the order String.prototype.sort compares them.
Alphabet == <<",", ":", ";", "a", "b", "c", "c1", "c2", "d">>

Rank(symbol) == CHOOSE i \in 1..Len(Alphabet) : Alphabet[i] = symbol

RECURSIVE LexLess(_, _)
LexLess(u, v) ==
  IF v = <<>> THEN FALSE
  ELSE IF u = <<>> THEN TRUE
  ELSE IF Head(u) = Head(v) THEN LexLess(Tail(u), Tail(v))
  ELSE Rank(Head(u)) < Rank(Head(v))

\* Array.prototype.join.
RECURSIVE join(_, _)
join(strings, separator) ==
  IF strings = <<>> THEN <<>>
  ELSE IF Len(strings) = 1 THEN strings[1]
  ELSE strings[1] \o <<separator>> \o join(Tail(strings), separator)

\* Array.prototype.sort without a comparator.
RECURSIVE sort(_)
sort(strings) ==
  IF strings = <<>> THEN <<>>
  ELSE LET least == CHOOSE i \in 1..Len(strings) :
                      \A j \in 1..Len(strings) :
                        /\ ~LexLess(strings[j], strings[i])
                        /\ strings[j] = strings[i] => i <= j
           others == [k \in 1..(Len(strings) - 1) |->
                        IF k < least THEN strings[k] ELSE strings[k + 1]]
       IN  <<strings[least]>> \o sort(others)

\* Lines 130-131.
serialize(groups) ==
  join(sort([i \in 1..Len(groups) |->
               <<groups[i].conditionId, ":">>
                 \o join([k \in 1..Len(groups[i].tokenIds) |-> <<groups[i].tokenIds[k]>>], ",")]),
       ";")

\* hasChanged(newGroups), lines 128-133.
hasChanged_inOrder(newGroups, current) == newGroups # current

hasChanged(newGroups, current) ==
  \/ Len(newGroups) # Len(current)
  \/ serialize(newGroups) # serialize(current)

\* What the catalog answers: events, or an HTTP or network failure.
Fetched(events) == [ok |-> TRUE, events |-> events]
HttpFailed == [ok |-> FALSE, events |-> <<>>]
NoAnswer == HttpFailed

Binary == GammaEvent(FALSE, <<[conditionId |-> "c1", clobTokenIds |-> Raw("array", <<"a", "b">>)]>>)

Multi ==
  GammaEvent(TRUE, <<[conditionId |-> "c2", clobTokenIds |-> Raw("array", <<"c", "d">>)],
                     [conditionId |-> "c1", clobTokenIds |-> Raw("array", <<"a", "b">>)]>>)

Broken == GammaEvent(FALSE, <<[conditionId |-> "c2", clobTokenIds |-> Raw("null", <<>>)]>>)

Catalogs == {<<>>, <<Binary>>, <<Binary, Multi>>, <<Multi, Binary>>, <<Binary, Broken>>}

Answers == {Fetched(events) : events \in Catalogs} \cup {HttpFailed}

\* A fetchAndUpdate() execution: who called it, and whether it is over (the
\* one that start awaits is kept until start resumes).
Refresh(by, done) == [by |-> by, done |-> done]

GammaOp(name, by, answer, emitted) ==
  [name |-> name, by |-> by, answer |-> answer, emitted |-> emitted,
   returned |-> <<>>, threw |-> FALSE]

\* fetchMarketGroups(), lines 70-89, from the answer of the catalog on.
fetchMarketGroups(answer) ==
  IF answer.ok THEN extractMarketGroups(answer.events) ELSE Threw

\* start() up to its await, lines 27-32, with fetchAndUpdate up to its await.
gammaStart ==
  /\ refreshes' = refreshes (+) One(Refresh("start", FALSE))
  /\ gammaOp' = GammaOp("start", "start", NoAnswer, <<>>)
  /\ UNCHANGED <<notGamma, currentGroups, gammaInterval, gammaTimers>>

\* start() after its await, line 33.
gammaStartResume(r) ==
  /\ r.by = "start" /\ r.done
  /\ refreshes' = refreshes (-) One(r)
  /\ gammaTimers' = gammaTimers + 1
  /\ gammaInterval' = "timer"
  /\ gammaOp' = GammaOp("startResume", "start", NoAnswer, <<>>)
  /\ UNCHANGED <<notGamma, currentGroups>>

\* stop(), lines 36-42.
gammaStop ==
  /\ IF gammaInterval = "timer"
     THEN gammaTimers' = gammaTimers - 1 /\ gammaInterval' = "null"
     ELSE UNCHANGED <<gammaTimers, gammaInterval>>
  /\ gammaOp' = GammaOp("stop", "", NoAnswer, <<>>)
  /\ UNCHANGED <<notGamma, currentGroups, refreshes>>

\* fetchAndUpdate() up to its await, lines 48-50 and 70-82, called by an
\* active timer (by = "tick") or from outside (by = "call").
fetchAndUpdate(by) ==
  /\ by = "tick" => gammaTimers > 0
  /\ refreshes' = refreshes (+) One(Refresh(by, FALSE))
  /\ gammaOp' = GammaOp("fetchAndUpdate", by, NoAnswer, <<>>)
  /\ UNCHANGED <<notGamma, currentGroups, gammaInterval, gammaTimers>>

\* fetchAndUpdate() after its await, lines 50-67: whatever is thrown inside
\* the try, by the fetch, by the extraction or by hasChanged, is caught.
fetchAndUpdateResume(r, answer) ==
  LET groups == fetchMarketGroups(answer)
      changed == ~groups.threw /\ hasChanged(groups.value, currentGroups)
  IN  /\ ~r.done
      /\ refreshes' = IF r.by = "start"
                      THEN (refreshes (-) One(r)) (+) One(Refresh("start", TRUE))
                      ELSE refreshes (-) One(r)
      /\ currentGroups' = IF changed THEN groups.value ELSE currentGroups
      /\ gammaOp' = GammaOp("fetchAndUpdateResume", r.by, answer,
                            IF changed
                            THEN <<[type |-> "market_groups_updated", groups |-> groups.value]>>
                            ELSE <<>>)
      /\ UNCHANGED <<notGamma, gammaInterval, gammaTimers>>

\* extractMarketGroups(events), lines 91-126, called from outside.
extractMarketGroupsCall(events) ==
  LET groups == extractMarketGroups(events)
  IN  /\ gammaOp' = [GammaOp("extractMarketGroups", "call", Fetched(events), <<>>)
                       EXCEPT !.returned = groups.value, !.threw = groups.threw]
      /\ UNCHANGED <<notGamma, currentGroups, gammaInterval, gammaTimers, refreshes>>

InitGamma ==
  /\ currentGroups = <<>>
  /\ gammaInterval = "null"
  /\ gammaTimers = 0
  /\ refreshes = EmptyBag
  /\ gammaOp = GammaOp("", "", NoAnswer, <<>>)

-----------------------------------------------------------------------------
\* TradingBot (core/engine.ts): the strategies it holds and the handlers it
\* subscribes when it is constructed.  What evaluate of a strategy answers is
\* an input of the handler of orderbook_update: signals, or an exception.

StrategyNames == {"s1", "s2"}

\* A strategy as the engine sees it: BaseStrategy, strategies/base.ts lines
\* 26-58, enabled when constructed.
Strategy(name) == [name |-> name, enabled |-> TRUE, totalTrades |-> 0]

\* TradeSignal (types): confidence in hundredths.
TradeSignal(tokenId, side, confidence, targetPrice, size) ==
  [tokenId |-> tokenId, side |-> side, confidence |-> confidence,
   targetPrice |-> targetPrice, size |-> size]

Weak40 == TradeSignal("t1", "BUY", 50, 40, 20)
Strong40 == TradeSignal("t1", "BUY", 70, 40, 20)
Strong60 == TradeSignal("t1", "BUY", 70, 60, 20)

\* What one call of evaluate does: it returns a list of signals, or throws.
Evaluations ==
  {Threw} \cup {Returned(signals) :
                  signals \in {<<Strong40>>, <<Weak40, Strong60>>}}

\* Line 144: signal.confidence > 0.5.
qualifies_atHalf(signal) == signal.confidence >= 50

qualifies(signal) == signal.confidence > 50

\* Lines 143-147: the signals of one strategy that are pushed.
pushed(signals) == SelectSeq(signals, qualifies)

\* Lines 141-153 without the catch: the exception leaves evaluateStrategies.
tryEvaluate_noCatch(answer) ==
  IF answer.threw THEN [signals |-> <<>>, escaped |-> TRUE]
  ELSE [signals |-> pushed(answer.value), escaped |-> FALSE]

\* Lines 141-153: the try around evaluate and the loop over its signals; the
\* catch logs the error.
tryEvaluate(answer) ==
  IF answer.threw THEN [signals |-> <<>>, escaped |-> FALSE]
  ELSE [signals |-> pushed(answer.value), escaped |-> FALSE]

\* Lines 136-154: the loop over the strategies, in the order of the Map.
RECURSIVE evaluateLoop(_, _)
evaluateLoop(strats, answers) ==
  IF strats = <<>> THEN [evaluated |-> <<>>, signals |-> <<>>, escaped |-> FALSE]
  ELSE LET strategy == Head(strats)
       IN  IF ~strategy.enabled THEN evaluateLoop(Tail(strats), answers)
           ELSE LET r == tryEvaluate(answers[strategy.name])
                    rest == evaluateLoop(Tail(strats), answers)
                IN  IF r.escaped
                    THEN [evaluated |-> <<strategy.name>>, signals |-> <<>>,
                          escaped |-> TRUE]
                    ELSE [evaluated |-> <<strategy.name>> \o rest.evaluated,
                          signals |-> r.signals \o rest.signals,
                          escaped |-> rest.escaped]

\* Lines 37 and 134 with the engine running whatever the Risk Manager says.
shortCircuits_ignoresHalt == ~running

\* Line 37: the handler returns when the engine is not running; line 134:
\* evaluateStrategies returns when the Risk Manager is halted.
shortCircuits == ~running \/ halted

\* Lines 172-178: the order executeSignal submits for a signal.
orderOf(signal) ==
  [tokenId |-> signal.tokenId, side |-> signal.side, price |-> signal.targetPrice,
   size |-> signal.size, type |-> "GTC"]

\* An evaluateStrategies() execution in its last loop, lines 156-158: the
\* signals it collected, the one whose executeSignal it awaits, and whether
\* the submitOrder of that one awaits the exchange or has returned.
Eval(signals, next, awaiting) ==
  [signals |-> signals, next |-> next, awaiting |-> awaiting]

\* The engine step that made the last step.
EngOp(name) ==
  [name |-> name,
   answers |-> [n \in StrategyNames |-> Returned(<<>>)],
   evaluated |-> <<>>, signals |-> <<>>, escaped |-> FALSE, emitted |-> <<>>,
   calls |-> <<>>, did |-> <<>>]

\* A step of the engine that calls nothing of the Order Manager.
noOrderManagerCall(name) ==
  /\ op' = Op(name, "engine", NoOrder, 0)
  /\ ret' = Ret(TRUE, NoReason, NoId)
  /\ log' = <<>>
  /\ UNCHANGED <<dryRun, limits, halted, haltReason, orders, positions, trades,
                 running, tasks, cleared>>

\* executeSignal(signals[i]) up to its await, lines 161-178, in the loop of
\* lines 156-158; `others` are the other executions.
executeSignal(others, signals, i, now) ==
  /\ submitOrderCall("engine", orderOf(signals[i]), now)
  /\ evals' = others (+) One(Eval(signals, i, ret'.pending))

\* The handler of orderbook_update, lines 36-40, with evaluateStrategies up
\* to its first await, lines 133-157: what it does to the engine and the
\* Order Manager, given what evaluate of each strategy answers.
onOrderbookUpdateCall(answers, now) ==
  LET r == IF shortCircuits
           THEN [evaluated |-> <<>>, signals |-> <<>>, escaped |-> FALSE]
           ELSE evaluateLoop(strategies, answers)
      executes == ~r.escaped /\ r.signals # <<>>
  IN  /\ engOp' = [EngOp("orderbook_update") EXCEPT
                     !.answers = answers, !.evaluated = r.evaluated,
                     !.signals = r.signals, !.escaped = r.escaped,
                     !.emitted = IF executes
                                 THEN <<Emit("strategy_signal", 0, r.signals[1].tokenId)>>
                                 ELSE <<>>]
      /\ IF executes
         THEN executeSignal(evals, r.signals, 1, now)
         ELSE noOrderManagerCall("orderbook_update") /\ UNCHANGED evals
      /\ UNCHANGED <<busVars, mdVars, gammaVars, strategies, runs>>

\* The handler with strategies whose evaluate is an input.
onOrderbookUpdate(answers, now) ==
  /\ onOrderbookUpdateCall(answers, now)
  /\ UNCHANGED arbVars

\* evaluateStrategies after the await of line 157: the next signal, or the end.
evaluateStrategiesResume(e, now) ==
  LET more == e.next < Len(e.signals)
  IN  /\ ~e.awaiting
      /\ engOp' = [EngOp("evaluateStrategiesResume") EXCEPT
                     !.signals = e.signals,
                     !.emitted = IF more
                                 THEN <<Emit("strategy_signal", 0,
                                             e.signals[e.next + 1].tokenId)>>
                                 ELSE <<>>]
      /\ IF more
         THEN executeSignal(evals (-) One(e), e.signals, e.next + 1, now)
         ELSE /\ evals' = evals (-) One(e)
              /\ noOrderManagerCall("evaluateStrategiesResume")
      /\ UNCHANGED <<arbVars, busVars, mdVars, gammaVars, strategies, runs>>

\* The loop of lines 44-46 if it skipped the strategies that are disabled.
onOrderFilled_enabledOnly(strats) ==
  [i \in 1..Len(strats) |->
     IF strats[i].enabled THEN [strats[i] EXCEPT !.totalTrades = @ + 1] ELSE strats[i]]

\* BaseStrategy.onOrderFilled, base.ts lines 55-58, on every strategy of the
\* Map: the loop of the handler of order_filled, engine.ts lines 44-46.
onOrderFilled(strats) ==
  [i \in 1..Len(strats) |-> [strats[i] EXCEPT !.totalTrades = @ + 1]]

\* Line 45: the arguments of each call, with result.filledSize ?? order.size.
onOrderFilledCalls(strats, orderId, order, result) ==
  [i \in 1..Len(strats) |->
     [strategy |-> strats[i].name, orderId |-> orderId, tokenId |-> order.tokenId,
      price |-> order.price,
      size |-> IF result.filledSize.def THEN result.filledSize.v ELSE order.size]]

\* A submitOrder of executeSignal after the await of client.placeOrder, with
\* the engine's handler of the order_filled it emits; executeSignal then
\* returns, lines 180-182.
executeSignalResume(t, result) ==
  /\ t.by = "engine"
  /\ submitOrderAfterAwait(t, result)
  /\ strategies' = IF placed(result) THEN onOrderFilled(strategies) ELSE strategies
  /\ \E e \in BagToSet(evals) :
        /\ e.awaiting /\ orderOf(e.signals[e.next]) = t.order
        /\ evals' = (evals (-) One(e)) (+) One([e EXCEPT !.awaiting = FALSE])
  /\ engOp' = [EngOp("executeSignalResume") EXCEPT
                 !.calls = IF placed(result)
                           THEN onOrderFilledCalls(strategies, result.orderId.v,
                                                   t.order, result)
                           ELSE <<>>]
  /\ UNCHANGED <<arbVars, busVars, mdVars, gammaVars, runs>>

\* registerStrategy, lines 55-58: Map.set of a name the Map has puts the new
\* strategy at the place of the old one.
registerStrategy(name) ==
  /\ strategies' =
       IF \E i \in 1..Len(strategies) : strategies[i].name = name
       THEN [i \in 1..Len(strategies) |->
               IF strategies[i].name = name THEN Strategy(name) ELSE strategies[i]]
       ELSE Append(strategies, Strategy(name))
  /\ engOp' = EngOp("registerStrategy")
  /\ noOrderManagerCall("registerStrategy")
  /\ UNCHANGED <<arbVars, busVars, mdVars, gammaVars, evals, runs>>

\* BaseStrategy.enable and disable, base.ts lines 89-97.
setEnabled(name, enabled) ==
  /\ \E i \in 1..Len(strategies) : strategies[i].name = name
  /\ strategies' = [i \in 1..Len(strategies) |->
                      IF strategies[i].name = name
                      THEN [strategies[i] EXCEPT !.enabled = enabled]
                      ELSE strategies[i]]
  /\ engOp' = EngOp(IF enabled THEN "enable" ELSE "disable")
  /\ noOrderManagerCall(IF enabled THEN "enable" ELSE "disable")
  /\ UNCHANGED <<arbVars, busVars, mdVars, gammaVars, evals, runs>>

\* start() and stop(), lines 85-123, await by await.  A start() or stop()
\* execution: the call it awaits, the strategies its loop has still to
\* visit, and the calls it has made, in order.
Run(kind, awaits, todo, did) ==
  [kind |-> kind, awaits |-> awaits, todo |-> todo, did |-> did]

Did(call, strategy) == [call |-> call, on |-> strategy]

\* The loops of lines 94-96 and 118-120 if they visited the first strategy only.
visited_firstOnly(strats) == IF strats = <<>> THEN <<>> ELSE <<strats[1].name>>

\* Lines 94 and 118: the loops visit this.strategies.values().
visited(strats) == [i \in 1..Len(strats) |-> strats[i].name]

\* start() up to its first await, lines 85-98: of initialize of the first
\* strategy, or of marketData.start when there is no strategy.
startCall ==
  LET todo == visited(strategies)
  IN  /\ noOrderManagerCall("start")
      /\ IF running
         THEN /\ engOp' = EngOp("start")
              /\ UNCHANGED <<runs, mdVars>>
         ELSE IF todo # <<>>
         THEN /\ runs' = runs (+) One(Run("start", "initialize", Tail(todo),
                                          <<Did("initialize", Head(todo))>>))
              /\ engOp' = [EngOp("start") EXCEPT !.did = <<Did("initialize", Head(todo))>>]
              /\ UNCHANGED mdVars
         ELSE /\ runs' = runs (+) One(Run("start", "marketData.start", <<>>,
                                          <<Did("marketData.start", "")>>))
              /\ engOp' = [EngOp("start") EXCEPT !.did = <<Did("marketData.start", "")>>]
              /\ mdStartCall
      /\ UNCHANGED <<arbVars, busVars, gammaVars, strategies, evals>>

\* start() after the await of line 95: the next strategy, or line 98.
startAfterInitialize(r) ==
  /\ r.kind = "start" /\ r.awaits = "initialize"
  /\ noOrderManagerCall("startResume")
  /\ IF r.todo # <<>>
     THEN /\ runs' = (runs (-) One(r))
                       (+) One(Run("start", "initialize", Tail(r.todo),
                                   Append(r.did, Did("initialize", Head(r.todo)))))
          /\ engOp' = [EngOp("startResume") EXCEPT
                         !.did = Append(r.did, Did("initialize", Head(r.todo)))]
          /\ UNCHANGED mdVars
     ELSE /\ runs' = (runs (-) One(r))
                       (+) One(Run("start", "marketData.start", <<>>,
                                   Append(r.did, Did("marketData.start", ""))))
          /\ engOp' = [EngOp("startResume") EXCEPT
                         !.did = Append(r.did, Did("marketData.start", ""))]
          /\ mdStartCall
  /\ UNCHANGED <<arbVars, busVars, gammaVars, strategies, evals>>

\* marketData.start() returns after its first poll, and start() goes on to
\* line 100: syncOrders up to its await.
startAfterMarketData(r, p) ==
  /\ r.kind = "start" /\ r.awaits = "marketData.start"
  /\ mdStartAfterAwait(p)
  /\ syncOrdersCall("start")
  /\ UNCHANGED running
  /\ runs' = (runs (-) One(r))
               (+) One(Run("start", "syncOrders", <<>>, Append(r.did, Did("syncOrders", ""))))
  /\ engOp' = [EngOp("startResume") EXCEPT !.did = Append(r.did, Did("syncOrders", ""))]
  /\ UNCHANGED <<arbVars, busVars, gammaVars, strategies, evals>>

\* syncOrders returns, and start() sets running, lines 100-103.
startAfterSync(r, t, remoteIds) ==
  /\ r.kind = "start" /\ r.awaits = "syncOrders"
  /\ t.by = "start"
  /\ syncOrdersAfterAwait(t, remoteIds)
  /\ runs' = runs (-) One(r)
  /\ engOp' = [EngOp("started") EXCEPT !.did = Append(r.did, Did("running = true", ""))]
  /\ UNCHANGED <<arbVars, busVars, mdVars, gammaVars, strategies, evals>>

\* stop() up to its await, lines 106-114.
stopCall ==
  /\ op' = Op("stop", "engine", NoOrder, 0)
  /\ ret' = Ret(TRUE, NoReason, NoId)
  /\ IF ~running
     THEN /\ log' = <<>>
          /\ engOp' = EngOp("stop")
          /\ UNCHANGED <<running, tasks, cleared, runs>>
     ELSE LET c == cancelAllOrdersCall("stop")
              did == <<Did("running = false", ""), Did("cancelAllOrders", "")>>
          IN  /\ running' = FALSE
              /\ log' = <<Call("cancelAllOrders", "stop")>> \o c.log
              /\ tasks' = tasks (+) c.tasks
              /\ cleared' = IF c.done THEN TRUE ELSE cleared
              /\ runs' = runs (+) One(Run("stop", "cancelAllOrders", visited(strategies), did))
              /\ engOp' = [EngOp("stop") EXCEPT !.did = did]
  /\ UNCHANGED <<dryRun, limits, halted, haltReason, orders, positions, trades>>
  /\ UNCHANGED <<arbVars, busVars, mdVars, gammaVars, strategies, evals>>

\* Lines 116-120 after the await of cancelAllOrders: marketData.stop(), then
\* shutdown of the first strategy, awaited; `did` are the calls so far.
stopMarketData(r) ==
  LET did == Append(r.did, Did("marketData.stop", ""))
  IN  /\ mdStopCall
      /\ IF r.todo # <<>>
         THEN /\ runs' = (runs (-) One(r))
                           (+) One(Run("stop", "shutdown", Tail(r.todo),
                                       Append(did, Did("shutdown", Head(r.todo)))))
              /\ engOp' = [EngOp("stopResume") EXCEPT
                             !.did = Append(did, Did("shutdown", Head(r.todo)))]
         ELSE /\ runs' = runs (-) One(r)
              /\ engOp' = [EngOp("stopped") EXCEPT !.did = did]

\* cancelAllOrders returns what the exchange answered, and stop() goes on.
stopAfterCancel(r, t, success) ==
  /\ r.kind = "stop" /\ r.awaits = "cancelAllOrders"
  /\ ~dryRun
  /\ t.by = "stop"
  /\ cancelAllOrdersAfterAwait(t, success)
  /\ stopMarketData(r)
  /\ UNCHANGED <<arbVars, busVars, gammaVars, strategies, evals>>

\* In dry run cancelAllOrders has returned at once; stop() resumes.
stopAfterDryCancel(r) ==
  /\ r.kind = "stop" /\ r.awaits = "cancelAllOrders"
  /\ dryRun
  /\ noOrderManagerCall("stopResume")
  /\ stopMarketData(r)
  /\ UNCHANGED <<arbVars, busVars, gammaVars, strategies, evals>>

\* stop() after the await of line 119: the next strategy, or the end.
stopAfterShutdown(r) ==
  /\ r.kind = "stop" /\ r.awaits = "shutdown"
  /\ noOrderManagerCall("stopResume")
  /\ IF r.todo # <<>>
     THEN /\ runs' = (runs (-) One(r))
                       (+) One(Run("stop", "shutdown", Tail(r.todo),
                                   Append(r.did, Did("shutdown", Head(r.todo)))))
          /\ engOp' = [EngOp("stopResume") EXCEPT
                         !.did = Append(r.did, Did("shutdown", Head(r.todo)))]
     ELSE /\ runs' = runs (-) One(r)
          /\ engOp' = [EngOp("stopped") EXCEPT !.did = r.did]
  /\ UNCHANGED <<arbVars, busVars, mdVars, gammaVars, strategies, evals>>

InitEngine ==
  /\ strategies = <<>>
  /\ evals = EmptyBag
  /\ runs = EmptyBag
  /\ engOp = EngOp("")

-----------------------------------------------------------------------------
\* BregmanArbStrategy (strategies/base.ts).  Prices are in cents, sizes
\* in shares, times in milliseconds.  What marketData.getOrderBook and
\* orderManager.getPosition answer are inputs of evaluate.

ArbTokens == {"t1", "t2", "t3"}

\* Lines 150-159: the defaults, with which the bot builds the strategy.
config ==
  [divergenceThreshold |-> Rat(5, 100), orderSize |-> 10, maxPositionSize |-> 50,
   minEdge |-> Rat(1, 100), feeRate |-> Rat(2, 100), maxStalenessMs |-> 5000]

RLe(x, y) == x.n * y.d <= y.n * x.d
RLt(x, y) == x.n * y.d < y.n * x.d

\* A number of the strategy: the rational n/d, or n/d times klDiv where the
\* code multiplies by the divergence (whose value is a logarithm).
Exact(r) == [n |-> r.n, d |-> r.d, of |-> "1"]
TimesKl(r) == [n |-> r.n, d |-> r.d, of |-> "klDiv"]

\* types/index.ts lines 95-107: an OrderBook, of which the strategy reads
\* asks, midPrice and timestamp; NoArbBook is the undefined that
\* getOrderBook answers for a token that is not in the cache.
PriceLevel(price, size) == [price |-> price, size |-> size]

ArbBook(asks, midPrice, timestamp) ==
  [present |-> TRUE, asks |-> asks, midPrice |-> midPrice, timestamp |-> timestamp]

NoArbBook == [present |-> FALSE, asks |-> <<>>, midPrice |-> 0, timestamp |-> 0]

\* The counters, lines 135-143.
ArbStats ==
  [evaluations |-> 0, skippedNoGroup |-> 0, skippedMissingBook |-> 0,
   skippedStaleBook |-> 0, simpleArbSignals |-> 0, bregmanArbSignals |-> 0,
   noArbFound |-> 0]

ArbSignal(tokenId, confidence, targetPrice, size, reason) ==
  [tokenId |-> tokenId, side |-> "BUY", confidence |-> confidence,
   targetPrice |-> targetPrice, size |-> size, reason |-> reason]

\* What tokenToGroup.get answers for a token the Map does not hold.
NoGroup == [def |-> FALSE, v |-> MarketGroup("", <<>>)]

\* The Map after tokenToGroup.clear(), line 189.
clear == [t \in ArbTokens |-> NoGroup]

\* Lines 190-194 and 162-166: tokenToGroup.set for every token of every group,
\* in the order of the groups, a later group replacing an earlier one that
\* holds the same token.
RECURSIVE setAll(_, _)
setAll(index, groups) ==
  IF groups = <<>> THEN index
  ELSE LET group == Head(groups)
           held == {group.tokenIds[i] : i \in 1..Len(group.tokenIds)}
       IN  setAll([t \in ArbTokens |->
                     IF t \in held THEN [def |-> TRUE, v |-> group] ELSE index[t]],
                  Tail(groups))

\* Line 229 if it compared with >=.
isStale_atLimit(book, now) == now - book.timestamp >= config.maxStalenessMs

\* Lines 228-229.
isStale(book, now) == now - book.timestamp > config.maxStalenessMs

\* Lines 213-239: the loop over group.tokenIds, which ends at the first book
\* that is missing or older than maxStalenessMs.  `books` are the books
\* gathered, in the order of the group.
RECURSIVE gatherBooks(_, _, _, _, _)
gatherBooks(tokenIds, tokenId, orderBook, cached, now) ==
  IF tokenIds = <<>> THEN [skipped |-> "", books |-> <<>>]
  ELSE LET siblingId == tokenIds[1]
           book == IF siblingId = tokenId THEN orderBook ELSE cached[siblingId]
           rest == gatherBooks(Tail(tokenIds), tokenId, orderBook, cached, now)
       IN  IF ~book.present THEN [skipped |-> "missing", books |-> <<>>]
           ELSE IF isStale(book, now)
           THEN [skipped |-> "stale", books |-> <<>>]
           ELSE [skipped |-> rest.skipped,
                 books |-> IF rest.skipped = "" THEN <<book>> \o rest.books ELSE <<>>]

\* position?.size ?? 0, lines 299-300 and 359-360.
sizeHeld(held, tokenId) == IF held[tokenId].def THEN held[tokenId].v ELSE 0

\* Line 301 if it left the position out.
remainingCapacity_ofNoPosition(held, tokenId) == config.maxPositionSize

\* Lines 301 and 366.
remainingCapacity(held, tokenId) == config.maxPositionSize - sizeHeld(held, tokenId)

MinOf(S) == CHOOSE x \in S : \A y \in S : x <= y

RECURSIVE SumSeq(_)
SumSeq(s) == IF s = <<>> THEN 0 ELSE s[1] + SumSeq(Tail(s))

\* Lines 258-315.  `books` are the gathered books, in the order of
\* group.tokenIds.  With prices in whole cents the comparison of line 284 is
\* never within a rounding error of its threshold.
checkSimpleArb(group, books, held) ==
  LET n == Len(group.tokenIds)
      emptyAsks == \E i \in 1..n : books[i].asks = <<>>
      askSum == SumSeq([i \in 1..n |-> books[i].asks[1].price])
      totalCost == RMul(Rat(askSum, 100), RAdd(RInt(1), config.feeRate))
      edge == RSub(RInt(1), totalCost)
      minLiquidity == MinOf({books[i].asks[1].size : i \in 1..n})
      remaining == {remainingCapacity(held, group.tokenIds[i]) : i \in 1..n}
      size == MinOf({config.orderSize, minLiquidity} \cup remaining)
      ratio == RDiv(edge, config.minEdge)
      confidence == IF RLe(ratio, RInt(1)) THEN ratio ELSE RInt(1)
  IN  IF emptyAsks THEN <<>>
      ELSE IF RLt(edge, config.minEdge) THEN <<>>
      ELSE IF size <= 0 THEN <<>>
      ELSE [i \in 1..n |->
              ArbSignal(group.tokenIds[i], Exact(confidence), books[i].asks[1].price,
                        Exact(RInt(size)), "Simple arb")]

\* Math.exp(x) for the x the comparisons below need, between two rationals.
expBracket(x) ==
  CASE x = Rat(10, 100) -> [lo |-> Rat(1105, 1000), hi |-> Rat(1106, 1000)]
    [] x = Rat(15, 100) -> [lo |-> Rat(1161, 1000), hi |-> Rat(1162, 1000)]
    [] x = Rat(20, 100) -> [lo |-> Rat(1221, 1000), hi |-> Rat(1222, 1000)]
    [] x = Rat(30, 100) -> [lo |-> Rat(1349, 1000), hi |-> Rat(1350, 1000)]

RECURSIVE ProductSeq(_)
ProductSeq(s) == IF s = <<>> THEN RInt(1) ELSE RMul(s[1], ProductSeq(Tail(s)))

\* Lines 329-333: klDiv = sum of uniform * Math.log(uniform / q).  klDiv >= c
\* exactly when the product of the n ratios uniform / q is at least
\* exp(n * c); it is decided where the product lies outside the bracket of
\* that exponential.
klDivAtLeast(impliedProbs, c) ==
  LET n == Len(impliedProbs)
      uniform == Rat(1, n)
      product == ProductSeq([i \in 1..n |-> RDiv(uniform, impliedProbs[i])])
      bracket == expBracket(RMul(RInt(n), c))
  IN  CASE RLe(bracket.hi, product) -> TRUE
        [] RLe(product, bracket.lo) -> FALSE

\* Line 350 if it compared with <=.
minProbIdx_lastOnTies(impliedProbs) ==
  CHOOSE i \in 1..Len(impliedProbs) :
    /\ \A j \in 1..Len(impliedProbs) : RLe(impliedProbs[i], impliedProbs[j])
    /\ \A j \in (i + 1)..Len(impliedProbs) : RLt(impliedProbs[i], impliedProbs[j])

\* Lines 348-353: the first index of the smallest implied probability.
minProbIdx(impliedProbs) ==
  CHOOSE i \in 1..Len(impliedProbs) :
    /\ \A j \in 1..Len(impliedProbs) : RLe(impliedProbs[i], impliedProbs[j])
    /\ \A j \in 1..(i - 1) : RLt(impliedProbs[i], impliedProbs[j])

\* Math.min of line 367: of orderSize * sizeMultiplier and the smaller of
\* availableLiquidity and remainingCapacity.  Below twice the threshold the
\* first is orderSize / divergenceThreshold times a klDiv in
\* [divergenceThreshold, 2 * divergenceThreshold).
minSize(scaled, other) ==
  IF scaled.of = "1"
  THEN IF RLe(RInt(other), scaled) THEN Exact(RInt(other)) ELSE scaled
  ELSE CASE other <= config.orderSize -> Exact(RInt(other))
         [] other >= 2 * config.orderSize -> scaled

\* Lines 317-396.
checkBregmanArb(group, books, held) ==
  LET n == Len(group.tokenIds)
      priceSum == SumSeq([i \in 1..n |-> books[i].midPrice])
      impliedProbs == [i \in 1..n |-> Rat(books[i].midPrice, priceSum)]
      threshold == config.divergenceThreshold
      doubled == RMul(RInt(2), threshold)
      idx == minProbIdx(impliedProbs)
      targetTokenId == group.tokenIds[idx]
      book == books[idx]
      currentSize == sizeHeld(held, targetTokenId)
      capped == klDivAtLeast(impliedProbs, doubled)
      scaled == IF capped THEN Exact(RInt(2 * config.orderSize))
                ELSE TimesKl(RDiv(RInt(config.orderSize), threshold))
      availableLiquidity == IF book.asks # <<>> THEN book.asks[1].size ELSE 0
      size == minSize(scaled, MinOf({availableLiquidity,
                                     remainingCapacity(held, targetTokenId)}))
      targetPrice == IF book.asks # <<>> THEN book.asks[1].price ELSE book.midPrice
      confidence == IF capped THEN Exact(RInt(1)) ELSE TimesKl(RDiv(RInt(1), doubled))
  IN  IF priceSum = 0 THEN <<>>
      ELSE IF \E i \in 1..n : impliedProbs[i].n <= 0 THEN <<>>
      ELSE IF ~klDivAtLeast(impliedProbs, threshold) THEN <<>>
      ELSE IF currentSize >= config.maxPositionSize THEN <<>>
      ELSE IF size.n <= 0 THEN <<>>
      ELSE <<ArbSignal(targetTokenId, confidence, targetPrice, size, "Bregman projection")>>

\* What the last call of the strategy was given and what it answered; `before`
\* are the counters when it was called.
ArbOp(name) ==
  [name |-> name, tokenId |-> "", orderBook |-> NoArbBook,
   cached |-> [t \in ArbTokens |-> NoArbBook], held |-> [t \in ArbTokens |-> Undef],
   now |-> 0, before |-> ArbStats, signals |-> <<>>, replaced |-> <<>>]

bump(s, counter, by) == [s EXCEPT ![counter] = @ + by]

\* Lines 242-255 if both checks always ran.
returned_both(simpleArbSignals, bregmanSignals) == simpleArbSignals \o bregmanSignals

\* Lines 242-255: the Bregman signals are returned only when the simple-arb
\* check has produced none.
returned(simpleArbSignals, bregmanSignals) ==
  IF simpleArbSignals # <<>> THEN simpleArbSignals ELSE bregmanSignals

\* Lines 201-256: the signals evaluate returns and the counters it leaves.
evaluated(s, index, enabled, tokenId, orderBook, cached, held, now) ==
  LET counted == bump(s, "evaluations", 1)
      group == index[tokenId]
      gathered == gatherBooks(group.v.tokenIds, tokenId, orderBook, cached, now)
      simpleArbSignals == checkSimpleArb(group.v, gathered.books, held)
      bregmanSignals == checkBregmanArb(group.v, gathered.books, held)
  IN  IF ~enabled THEN [signals |-> <<>>, stats |-> counted]
      ELSE IF ~group.def
      THEN [signals |-> <<>>, stats |-> bump(counted, "skippedNoGroup", 1)]
      ELSE IF gathered.skipped = "missing"
      THEN [signals |-> <<>>, stats |-> bump(counted, "skippedMissingBook", 1)]
      ELSE IF gathered.skipped = "stale"
      THEN [signals |-> <<>>, stats |-> bump(counted, "skippedStaleBook", 1)]
      ELSE IF simpleArbSignals # <<>>
      THEN [signals |-> returned(simpleArbSignals, bregmanSignals),
            stats |-> bump(counted, "simpleArbSignals", Len(simpleArbSignals))]
      ELSE IF bregmanSignals # <<>>
      THEN [signals |-> returned(simpleArbSignals, bregmanSignals),
            stats |-> bump(counted, "bregmanArbSignals", Len(bregmanSignals))]
      ELSE [signals |-> <<>>, stats |-> bump(counted, "noArbFound", 1)]

evaluateCall(tokenId, orderBook, cached, held, now) ==
  LET answer == evaluated(stats, tokenToGroup, arbEnabled, tokenId, orderBook,
                          cached, held, now)
  IN  /\ stats' = answer.stats
      /\ arbOp' = [ArbOp("evaluate") EXCEPT
                     !.tokenId = tokenId, !.orderBook = orderBook, !.cached = cached,
                     !.held = held, !.now = now, !.before = stats,
                     !.signals = answer.signals]
      /\ UNCHANGED <<marketGroups, tokenToGroup, arbEnabled>>

\* evaluate called on the strategy directly.
evaluate(tokenId, orderBook, cached, held, now) ==
  /\ evaluateCall(tokenId, orderBook, cached, held, now)
  /\ UNCHANGED notArb

\* ctx.orderManager.getPosition(tokenId) for every token, lines 299 and 359:
\* the positions of the store.
getPosition ==
  [t \in ArbTokens |-> IF t \in DOMAIN positions THEN Some(positions[t].size) ELSE Undef]

\* A signal of the strategy as the engine reads it: the confidence in
\* hundredths and the size in shares, for amounts that are plain numbers.
tradeSignal(signal) ==
  TradeSignal(signal.tokenId, signal.side,
              CASE signal.confidence.of = "1" ->
                     (signal.confidence.n * 100) \div signal.confidence.d,
              signal.targetPrice,
              CASE signal.size.of = "1" -> signal.size.n \div signal.size.d)

\* The handler of orderbook_update (engine.ts lines 36-40 and 133-157) of a
\* bot whose one strategy, registered first, is the arbitrage strategy:
\* evaluate is called when the handler does not return early and the
\* strategy is enabled, with the positions of the store, and the engine
\* executes the signals it answers.
arbOrderbookUpdate(tokenId, orderBook, cached, now) ==
  LET called == /\ ~shortCircuits
                /\ strategies # <<>> /\ strategies[1].enabled
      answer == evaluated(stats, tokenToGroup, arbEnabled, tokenId, orderBook,
                          cached, getPosition, now)
      signals == [i \in 1..Len(answer.signals) |-> tradeSignal(answer.signals[i])]
      answers == [n \in StrategyNames |->
                    IF strategies # <<>> /\ n = strategies[1].name
                    THEN Returned(signals) ELSE Returned(<<>>)]
  IN  /\ Len(strategies) <= 1
      /\ onOrderbookUpdateCall(answers, now)
      /\ IF called
         THEN evaluateCall(tokenId, orderBook, cached, getPosition, now)
         ELSE UNCHANGED arbVars

\* Lines 187-199 without the clear() of line 189.
updateMarketGroups_noClear(groups) ==
  /\ marketGroups' = groups
  /\ tokenToGroup' = setAll(tokenToGroup, groups)
  /\ arbOp' = [ArbOp("updateMarketGroups") EXCEPT !.replaced = marketGroups]
  /\ UNCHANGED <<notArb, arbEnabled, stats>>

\* Lines 187-199.
updateMarketGroups(groups) ==
  /\ marketGroups' = groups
  /\ tokenToGroup' = setAll(clear, groups)
  /\ arbOp' = [ArbOp("updateMarketGroups") EXCEPT !.replaced = marketGroups]
  /\ UNCHANGED <<notArb, arbEnabled, stats>>

\* BaseStrategy.enable and disable, lines 89-97.
enable ==
  /\ arbEnabled' = TRUE
  /\ arbOp' = ArbOp("enable")
  /\ UNCHANGED <<notArb, marketGroups, tokenToGroup, stats>>

disable ==
  /\ arbEnabled' = FALSE
  /\ arbOp' = ArbOp("disable")
  /\ UNCHANGED <<notArb, marketGroups, tokenToGroup, stats>>

InitBregmanArb ==
  /\ marketGroups = <<>>
  /\ tokenToGroup = setAll(clear, <<>>)
  /\ arbEnabled = TRUE
  /\ stats = ArbStats
  /\ arbOp = ArbOp("")

-----------------------------------------------------------------------------
\* The state after construction: the store is empty, nothing is halted, the
\* engine is not running.

Init ==
  /\ dryRun \in BOOLEAN
  /\ limits = InitialLimits
  /\ halted = FALSE
  /\ haltReason = ""
  /\ orders = <<>>
  /\ positions = [t \in {} |-> ZeroPosition]
  /\ trades = <<>>
  /\ running = FALSE
  /\ tasks = NoTasks
  /\ op = Op("init", "", NoOrder, 0)
  /\ ret = Ret(TRUE, NoReason, NoId)
  /\ log = <<>>
  /\ cleared = FALSE
  /\ InitBus
  /\ InitMarketData
  /\ InitGamma
  /\ InitEngine
  /\ InitBregmanArb

\* Order requests and exchange answers of the specifications that do not
\* look at positions: one request the risk gate admits, one it refuses, an
\* exchange that fills nothing or everything at the request price.
PlainOrders == {o \in OrderRequests : o.side = "BUY"}

PlainResults(order) ==
  {r \in PlaceResults(order) :
     /\ r.avgFillPrice = Undef
     /\ r.filledSize \in {Undef, Some(order.size)}}

UnfilledResults(order) == {r \in PlaceResults(order) : r.filledSize = Undef}

\* The bounds, as guards of the steps that add to what they bound.
Room(n) == BagCardinality(tasks) < n

Issued(results) == {r \in results : r.orderId.def => r.orderId.v <= MaxOrders}

\* The Risk Manager with the Order Manager calls that pass its gate and that
\* change what it reads from the store.
NextRisk ==
  \/ Room(MaxCalls) /\ \E o \in PlainOrders : checkOrder(o)
  \/ Room(MaxCalls) /\ \E r \in HaltReasons : halt(r)
  \/ resume
  \/ \E l \in LimitUpdates : updateLimits(l)
  \/ Len(trades) < MaxTrades /\ \E t \in TradeInputs : saveTrade(t)
  \/ Room(MaxCalls) /\ \E o \in PlainOrders, now \in Timestamps : submitOrder(o, now)
  \/ \E t \in BagToSet(tasks) : \E r \in Issued(PlainResults(t.order)) :
        submitOrderResume(t, r)
  \/ \E t \in BagToSet(tasks), b \in BOOLEAN : cancelAllOrdersResume(t, b)

SpecRisk == Init /\ [][NextRisk]_vars

\* The Order Manager placing orders on a live exchange and booking the fills.
InitLive == Init /\ ~dryRun

NextFills ==
  \/ Room(MaxCalls) /\ \E o \in OrderRequests, now \in Timestamps : submitOrder(o, now)
  \/ \E t \in BagToSet(tasks) : \E r \in Issued(PlaceResults(t.order)) :
        submitOrderResume(t, r)
  \/ Room(MaxCalls) /\ cancelAllOrders
  \/ \E t \in BagToSet(tasks), b \in BOOLEAN : cancelAllOrdersResume(t, b)

SpecFills == InitLive /\ [][NextFills]_vars

\* The Order Manager behind the risk gate, in dry-run mode and on a live
\* exchange that fills nothing.
NextOrders ==
  \/ Room(MaxCalls) /\ \E r \in HaltReasons : halt(r)
  \/ resume
  \/ Len(trades) < MaxTrades /\ \E t \in TradeInputs : saveTrade(t)
  \/ Room(MaxCalls) /\ \E o \in PlainOrders, now \in Timestamps : submitOrder(o, now)
  \/ \E t \in BagToSet(tasks) : \E r \in Issued(UnfilledResults(t.order)) :
        submitOrderResume(t, r)
  \/ Room(MaxCalls) /\ \E id \in 1..MaxOrders : cancelOrder(id)
  \/ \E t \in BagToSet(tasks), b \in BOOLEAN : cancelOrderResume(t, b)
  \/ Room(MaxCalls) /\ cancelAllOrders
  \/ \E t \in BagToSet(tasks), b \in BOOLEAN : cancelAllOrdersResume(t, b)

SpecOrders == Init /\ [][NextOrders]_vars

\* The engine with the Order Manager: every call that places, cancels or
\* reconciles orders, in every interleaving of their awaits.
NextEngine ==
  \/ Room(MaxTasks) /\ \E r \in HaltReasons : halt(r)
  \/ resume
  \/ Room(MaxTasks) /\ emitRiskBreachEvent
  \/ Room(MaxTasks) /\ \E o \in PlainOrders, now \in Timestamps : submitOrder(o, now)
  \/ \E t \in BagToSet(tasks) : \E r \in Issued(UnfilledResults(t.order)) :
        submitOrderResume(t, r)
  \/ \E t \in BagToSet(tasks), b \in BOOLEAN : cancelAllOrdersResume(t, b)
  \/ \E t \in BagToSet(tasks) : \E ids \in SUBSET (DOMAIN orders) : syncOrdersResume(t, ids)
  \/ Room(MaxTasks) /\ start
  \/ Room(MaxTasks) /\ stop

SpecEngine == Init /\ [][NextEngine]_vars

\* The Order Manager on a live exchange that places, cancels and lists
\* orders; the list may name orders the store does not know.
RemoteIds == 1..(MaxOrders + 1)

NextReconcile ==
  \/ Room(MaxCalls) /\ \E o \in PlainOrders, now \in Timestamps : submitOrder(o, now)
  \/ \E t \in BagToSet(tasks) : \E r \in Issued(UnfilledResults(t.order)) :
        submitOrderResume(t, r)
  \/ Room(MaxCalls) /\ \E id \in RemoteIds : cancelOrder(id)
  \/ \E t \in BagToSet(tasks), b \in BOOLEAN : cancelOrderResume(t, b)
  \/ Room(MaxCalls) /\ cancelAllOrders
  \/ \E t \in BagToSet(tasks), b \in BOOLEAN : cancelAllOrdersResume(t, b)
  \/ Room(MaxCalls) /\ syncOrders
  \/ \E t \in BagToSet(tasks) : \E ids \in SUBSET RemoteIds : syncOrdersResume(t, ids)

SpecReconcile == InitLive /\ [][NextReconcile]_vars

\* The event bus under its callers: any subscription, removal and emit, with at
\* most MaxHandlers subscriptions made from outside a handler and MaxOnce
\* closures of once.  A handler that emits is subscribed with once only.
OnceHandlers == {"returns", "emits"}

Subscribed == Len(handlers["order_filled"]) + Len(handlers["risk_breach"])

NextBus ==
  \/ Subscribed < MaxHandlers
       /\ \E type \in EventTypes, h \in UserHandlers \ {"emits"} : on(type, h)
  \/ \E type \in EventTypes, h \in UserHandlers : off(type, h)
  \/ Subscribed < MaxHandlers /\ Len(wrappers) < MaxOnce
       /\ \E type \in EventTypes, h \in OnceHandlers : once(type, h)
  \/ \E w \in 1..Len(wrappers) : unsubscribe(w)
  \/ \E type \in EventTypes : emit(type)

SpecBus == Init /\ [][NextBus]_vars

\* The market data service under its callers, the timers and the exchange:
\* at most MaxPolls polls await fetches at once and at most MaxStarts calls of
\* start hold a timer or await their first poll.
StartsAwaiting ==
  LET S == {p \in BagToSet(polls) : p.by = "start"}
  IN  BagCardinality([p \in S |-> polls[p]])

NextMarketData ==
  \/ \E tokenIds \in SUBSET MdTokens : mdSubscribe(tokenIds)
  \/ \E tokenIds \in SUBSET MdTokens : mdUnsubscribe(tokenIds)
  \/ BagCardinality(polls) < MaxPolls /\ timers + StartsAwaiting < MaxStarts /\ mdStart
  \/ \E p \in BagToSet(polls) : mdStartResume(p)
  \/ mdStop
  \/ BagCardinality(polls) < MaxPolls /\ poll
  \/ \E p \in BagToSet(polls), token \in MdTokens, result \in FetchResults :
       getOrderBookResume(p, token, result)

SpecMarketData == Init /\ [][NextMarketData]_vars

\* The market data service while it is left started and its tokens stay
\* subscribed: no stop, no unsubscribe.  The event loop resumes a start whose
\* first poll is over, an active timer keeps firing, every awaited fetch
\* settles, and a token that is fetched again and again is fetched with
\* success at some time.
NextPolling ==
  \/ \E tokenIds \in SUBSET MdTokens : mdSubscribe(tokenIds)
  \/ BagCardinality(polls) < MaxPolls /\ timers + StartsAwaiting < MaxStarts /\ mdStart
  \/ \E p \in BagToSet(polls) : mdStartResume(p)
  \/ BagCardinality(polls) < MaxPolls /\ poll
  \/ \E p \in BagToSet(polls), token \in MdTokens, result \in FetchResults :
       getOrderBookResume(p, token, result)

FairPolling ==
  /\ WF_vars(\E p \in BagToSet(polls) : mdStartResume(p))
  /\ WF_vars(BagCardinality(polls) < MaxPolls /\ poll)
  /\ \A token \in MdTokens :
       /\ WF_vars(\E p \in BagToSet(polls), result \in FetchResults :
                    getOrderBookResume(p, token, result))
       /\ SF_vars(\E p \in BagToSet(polls), result \in Books :
                    getOrderBookResume(p, token, result))

SpecPolling == Init /\ [][NextPolling]_vars /\ FairPolling

\* The discovery service under its callers, its timers and the catalog: at
\* most MaxRefreshes refreshes await the catalog at once and at most
\* MaxStarts calls of start hold a timer or await their first refresh.
GammaStartsAwaiting ==
  LET S == {r \in BagToSet(refreshes) : r.by = "start"}
  IN  BagCardinality([r \in S |-> refreshes[r]])

NextGamma ==
  \/ BagCardinality(refreshes) < MaxRefreshes
       /\ gammaTimers + GammaStartsAwaiting < MaxStarts /\ gammaStart
  \/ \E r \in BagToSet(refreshes) : gammaStartResume(r)
  \/ gammaStop
  \/ BagCardinality(refreshes) < MaxRefreshes /\ \E by \in {"tick", "call"} : fetchAndUpdate(by)
  \/ \E r \in BagToSet(refreshes), answer \in Answers :
       fetchAndUpdateResume(r, answer)

SpecGamma == Init /\ [][NextGamma]_vars

\* extractMarketGroups on its own: every event of up to MaxMarkets sub-markets
\* alone, and the catalogs of two events.  The method reads and writes no
\* field, so one call from the state after construction shows all it does.
RECURSIVE SeqsUpTo(_, _)
SeqsUpTo(S, n) ==
  IF n = 0 THEN {<<>>}
  ELSE LET shorter == SeqsUpTo(S, n - 1)
       IN  shorter \cup {Append(q, x) : q \in shorter, x \in S}

GammaEvents == {GammaEvent(negRisk, markets) :
                  negRisk \in BOOLEAN, markets \in SeqsUpTo(GammaMarkets, MaxMarkets)}

NextExtract ==
  \/ gammaOp.name = "" /\ \E event \in GammaEvents : extractMarketGroupsCall(<<event>>)
  \/ gammaOp.name = "" /\ \E events \in Catalogs : extractMarketGroupsCall(events)

SpecExtract == Init /\ [][NextExtract]_vars

\* The engine with its strategies: order books arrive while the engine is
\* started and stopped, the Risk Manager halted and resumed, and strategies
\* registered, enabled and disabled; at most MaxEvals evaluations await the
\* Order Manager at once.
Silent == Returned(<<>>)

Evaluated == {strategies[i].name : i \in {i \in 1..Len(strategies) : strategies[i].enabled}}

EvaluateAnswers ==
  {answers \in [StrategyNames -> Evaluations \cup {Silent}] :
     \A name \in StrategyNames : answers[name] = Silent <=> name \notin Evaluated}

\* createBot registers the strategies of the configuration, in its order,
\* before anything else is called.
Configured == <<"s1", "s2">>

Registering == op.name \in {"init", "registerStrategy"} /\ Len(strategies) < Len(Configured)

NextStrategies ==
  \/ Registering /\ registerStrategy(Configured[Len(strategies) + 1])
  \/ \E name \in StrategyNames, enabled \in BOOLEAN : setEnabled(name, enabled)
  \/ Room(MaxCalls) /\ \E r \in HaltReasons : halt(r)
  \/ resume
  \/ Room(MaxCalls) /\ start
  \/ \E t \in BagToSet(tasks) : syncOrdersResume(t, DOMAIN orders)
  \/ Room(MaxCalls) /\ stop
  \/ \E t \in BagToSet(tasks), b \in BOOLEAN : cancelAllOrdersResume(t, b)
  \/ /\ BagCardinality(evals) < MaxEvals /\ Room(MaxTasks)
     /\ \E answers \in EvaluateAnswers, now \in Timestamps :
          onOrderbookUpdate(answers, now)
  \/ Room(MaxTasks) /\ \E e \in BagToSet(evals), now \in Timestamps :
       evaluateStrategiesResume(e, now)
  \/ \E t \in BagToSet(tasks) : \E r \in Issued(PlainResults(t.order)) :
       executeSignalResume(t, r)

SpecStrategies == Init /\ [][NextStrategies]_vars

\* The engine started and stopped by its callers, with the strategies of the
\* configuration and no token subscribed: at most MaxRuns executions of
\* start() and stop() await a call at once, and at most MaxStarts timers of
\* the market data service are left active.
RunsRoom == BagCardinality(runs) < MaxRuns

NextLifecycle ==
  \/ Registering /\ registerStrategy(Configured[Len(strategies) + 1])
  \/ RunsRoom /\ timers + BagCardinality(runs) < MaxStarts /\ startCall
  \/ \E r \in BagToSet(runs) : startAfterInitialize(r)
  \/ \E r \in BagToSet(runs), p \in BagToSet(polls) : startAfterMarketData(r, p)
  \/ \E r \in BagToSet(runs), t \in BagToSet(tasks) :
       t.kind = "sync" /\ startAfterSync(r, t, DOMAIN orders)
  \/ RunsRoom /\ stopCall
  \/ \E r \in BagToSet(runs), t \in BagToSet(tasks), success \in BOOLEAN :
       t.kind = "cancelAll" /\ stopAfterCancel(r, t, success)
  \/ \E r \in BagToSet(runs) : stopAfterDryCancel(r)
  \/ \E r \in BagToSet(runs) : stopAfterShutdown(r)

SpecLifecycle == Init /\ [][NextLifecycle]_vars

\* The arbitrage strategy on its own: groups of two and of three outcomes, the
\* second list with a token that two groups hold; books that are cheap,
\* balanced, skewed, thin, without asks, aged and missing; positions below,
\* near and at maxPositionSize, and a short one.
ArbNows == {10000}

BookAt(midPrice, size, timestamp) ==
  ArbBook(<<PriceLevel(midPrice + 1, size), PriceLevel(midPrice + 3, 100)>>,
          midPrice, timestamp)

FreshBooks ==
  {BookAt(m, 30, 10000) : m \in {20, 40, 50, 80, 95}}
    \cup {BookAt(20, 5, 10000), ArbBook(<<>>, 50, 10000)}

AgedBooks == {BookAt(20, 30, 4999), BookAt(40, 30, 5000)}

ThirdBooks == {BookAt(20, 30, 10000), BookAt(80, 30, 10000)}

BooksOf(tokenId) == IF tokenId = "t3" THEN ThirdBooks ELSE FreshBooks \cup AgedBooks

\* The books evaluate is called with.
TriggerBooks ==
  {BookAt(m, 30, 10000) : m \in {20, 50, 95}} \cup AgedBooks

CachedOf(tokenId) == {NoArbBook} \cup BooksOf(tokenId)

GroupLists ==
  {<<MarketGroup("c1", <<"t1", "t2">>)>>,
   <<MarketGroup("c2", <<"t1", "t2", "t3">>)>>,
   <<MarketGroup("c1", <<"t1", "t2">>), MarketGroup("c3", <<"t2", "t3">>)>>}

NoneHeld == [t \in ArbTokens |-> Undef]

HeldMaps ==
  {NoneHeld, [NoneHeld EXCEPT !["t1"] = Some(45)], [NoneHeld EXCEPT !["t2"] = Some(50)],
   [NoneHeld EXCEPT !["t2"] = Some(-45)]}

\* The tokens whose cached book and position evaluate reads.
Siblings(tokenId) ==
  LET group == tokenToGroup[tokenId]
  IN  IF arbEnabled /\ group.def
      THEN {group.v.tokenIds[i] : i \in 1..Len(group.v.tokenIds)} \ {tokenId}
      ELSE {}

\* What evaluate does not read is left out of its inputs.
Read(tokenId, cached, held) ==
  /\ \A t \in ArbTokens \ Siblings(tokenId) : cached[t] = NoArbBook
  /\ Siblings(tokenId) = {} => held = NoneHeld

NextArb ==
  \/ \E groups \in GroupLists : updateMarketGroups(groups)
  \/ enable
  \/ disable
  \/ /\ arbOp.name # "evaluate" /\ stats.evaluations < MaxEvaluations
     /\ \E tokenId \in ArbTokens, held \in HeldMaps, now \in ArbNows :
          \E orderBook \in BooksOf(tokenId) \cap TriggerBooks, b1 \in CachedOf("t1"),
             b2 \in CachedOf("t2"), b3 \in CachedOf("t3") :
            LET cached == [t \in ArbTokens |->
                             IF t = "t1" THEN b1 ELSE IF t = "t2" THEN b2 ELSE b3]
            IN  /\ Read(tokenId, cached, held)
                /\ evaluate(tokenId, orderBook, cached, held, now)

SpecArb == Init /\ [][NextArb]_vars

\* Several submitOrder calls in flight on a live exchange: every handler of
\* orderbook_update starts evaluateStrategies without awaiting it (engine.ts
\* lines 36-40) and a poll emits one orderbook_update per token (lines
\* 250-268), so a submitOrder can be called while another awaits placeOrder.
\* The limits are configured before the first order.
NextConcurrent ==
  \/ /\ DOMAIN orders = {} /\ tasks = NoTasks /\ limits = InitialLimits
     /\ \E l \in LimitUpdates : updateLimits(l)
  \/ Room(MaxTasks) /\ \E o \in OrderRequests, now \in Timestamps : submitOrder(o, now)
  \/ \E t \in BagToSet(tasks) : \E r \in Issued(PlaceResults(t.order)) :
        submitOrderResume(t, r)

SpecConcurrent == InitLive /\ [][NextConcurrent]_vars

\* Round trips on a live exchange: a position opened, closed and opened again
\* takes three orders, with cancelAllOrders closing the records of the orders
\* that filled.
MaxPlaced == 3

NextRoundTrips ==
  \/ Room(MaxCalls) /\ \E o \in OrderRequests, now \in Timestamps : submitOrder(o, now)
  \/ \E t \in BagToSet(tasks) :
       \E r \in {x \in PlaceResults(t.order) : x.orderId.def => x.orderId.v <= MaxPlaced} :
         submitOrderResume(t, r)
  \/ Room(MaxCalls) /\ cancelAllOrders
  \/ \E t \in BagToSet(tasks), b \in BOOLEAN : cancelAllOrdersResume(t, b)

SpecRoundTrips == InitLive /\ [][NextRoundTrips]_vars

\* Reconciliation while orders are being placed.  No answer of placeOrder
\* fills an order and nothing cancels one here, so every order the exchange
\* accepted rests on its book: the orders open on the exchange are the orders
\* placed so far.
openOnExchange == DOMAIN orders

\* The exchange serves the getOpenOrders request of a syncOrders: it lists
\* the orders open at that moment.  The task then holds the answer (orderId
\* counts the answers it holds) until the continuation of syncOrders runs.
getOpenOrdersServed(t) ==
  /\ t.kind = "sync" /\ t.orderId = 0
  /\ tasks' = (tasks (-) One(t)) (+) One([t EXCEPT !.orderId = 1, !.live = openOnExchange])
  /\ op' = [Op("getOpenOrdersServed", t.by, NoOrder, 0) EXCEPT !.live = openOnExchange]
  /\ ret' = Pending
  /\ log' = <<>>
  /\ UNCHANGED <<svcVars, dryRun, limits, halted, haltReason, orders, positions, trades,
                 running, cleared>>

NextSync ==
  \/ Room(MaxTasks) /\ \E o \in PlainOrders, now \in Timestamps : submitOrder(o, now)
  \/ \E t \in BagToSet(tasks) : \E r \in Issued(UnfilledResults(t.order)) :
        submitOrderResume(t, r)
  \/ Room(MaxTasks) /\ syncOrders
  \/ \E t \in BagToSet(tasks) : getOpenOrdersServed(t)
  \/ \E t \in BagToSet(tasks) : t.orderId = 1 /\ syncOrdersResume(t, t.live)

SpecSync == InitLive /\ [][NextSync]_vars

\* Refreshes of the discovery service that overlap: start() awaits its first
\* refresh, and fetchAndUpdate is called again (it is a public method) while
\* that refresh awaits the catalog.  Every refresh by "call" has begun after
\* the refresh of start.
NextOverlap ==
  \/ gammaOp.name = "" /\ gammaStart
  \/ /\ BagCardinality(refreshes) < MaxRefreshes
     /\ BagIn(Refresh("start", FALSE), refreshes)
     /\ fetchAndUpdate("call")
  \/ \E r \in BagToSet(refreshes), answer \in Answers :
       fetchAndUpdateResume(r, answer)
  \/ \E r \in BagToSet(refreshes) : gammaStartResume(r)

SpecOverlap == Init /\ [][NextOverlap]_vars

\* The bot trading with the arbitrage strategy on a live exchange that
\* accepts every order and fills it in full or not at all: createBot registers
\* the strategy and the groups arrive before the engine is started; then at
\* most MaxBooks order books arrive, one while the orders of another are
\* being placed.
MaxBooks == 3

TradedGroups ==
  {<<MarketGroup("c1", <<"t1", "t2">>)>>, <<MarketGroup("c2", <<"t1", "t2", "t3">>)>>}

\* The books of the cache at one moment: two outcomes far apart, or three
\* outcomes whose best asks sum to less than 1.
CachedBooks ==
  {[t \in ArbTokens |-> IF t = "t1" THEN BookAt(20, 30, 10000)
                        ELSE IF t = "t2" THEN BookAt(80, 30, 10000) ELSE NoArbBook],
   [t \in ArbTokens |-> IF t = "t2" THEN BookAt(40, 30, 10000) ELSE BookAt(20, 30, 10000)]}

Accepted(order) == {r \in PlainResults(order) : r.orderId.def /\ r.orderId.v <= MaxPlaced}

NextArbTrading ==
  \/ strategies = <<>> /\ ~running /\ tasks = NoTasks /\ registerStrategy(Configured[1])
  \/ marketGroups = <<>> /\ ~running /\ tasks = NoTasks
       /\ \E groups \in TradedGroups : updateMarketGroups(groups)
  \/ strategies # <<>> /\ marketGroups # <<>> /\ tasks = NoTasks /\ start
  \/ \E t \in BagToSet(tasks) : syncOrdersResume(t, {})
  \/ /\ running /\ stats.evaluations < MaxBooks /\ BagCardinality(evals) < MaxTasks
     /\ \E tokenId \in {"t1", "t2"}, cached \in CachedBooks, now \in ArbNows :
          arbOrderbookUpdate(tokenId, cached[tokenId], cached, now)
  \/ \E e \in BagToSet(evals), now \in Timestamps : evaluateStrategiesResume(e, now)
  \/ \E t \in BagToSet(tasks) : \E r \in Accepted(t.order) : executeSignalResume(t, r)

SpecArbTrading == InitLive /\ [][NextArbTrading]_vars

-----------------------------------------------------------------------------
\* Properties.  A property of the form [][A]_vars speaks of one step: unprimed
\* names are the state before the operation, primed names the state after it,
\* and op', ret', log' are the operation, its answer and its effects.

\* C1: once the Risk Manager is halted, every operation other than resume()
\* leaves it halted, and every checkOrder (called directly or by submitOrder)
\* answers allowed = false with the reason "Trading halted: <haltReason>".
C1_HaltLatched ==
  [][halted =>
       /\ (op'.name # "resume" => halted')
       /\ (op'.name \in {"checkOrder", "submitOrder"} =>
             /\ ~ret'.ok
             /\ ~ret'.pending
             /\ ret'.reason = Reason("halted", haltReason, 0, 0))]_vars

\* C1, its case: the daily-loss check halted the Risk Manager and a later
\* check was refused with that halt reason.
C1_Witness ==
  /\ halted
  /\ haltReason = "Daily loss limit exceeded"
  /\ op.name = "checkOrder"
  /\ ret.reason = Reason("halted", "Daily loss limit exceeded", 0, 0)

C3_DeniedSubmitCallsNoClient ==
  [][(op'.name = "submitOrder" /\ ~checkOrderResult(op'.order).allowed) =>
       /\ ret' = Ret(FALSE, checkOrderResult(op'.order).reason, NoId)
       /\ CountK(log', "client") = 0
       /\ orders' = orders /\ positions' = positions /\ trades' = trades
       /\ Count(log', "emit", "order_filled") = 0
       /\ Count(log', "emit", "position_changed") = 0]_vars

\* C3, amended: such a submitOrder never calls placeOrder and leaves no call
\* awaiting it; the one call of the exchange client it can make is the
\* cancelAllOrders of the engine's risk_breach handler, when the denial is the
\* daily-loss halt.  The rest is as stated.
C3_DeniedSubmitPlacesNothing ==
  [][(op'.name = "submitOrder" /\ ~checkOrderResult(op'.order).allowed) =>
       /\ ret' = Ret(FALSE, checkOrderResult(op'.order).reason, NoId)
       /\ Count(log', "client", "placeOrder") = 0
       /\ \A t \in BagToSet(tasks') :
            t.kind = "submit" => CopiesIn(t, tasks') = CopiesIn(t, tasks)
       /\ \A i \in 1..Len(log') :
            log'[i].k = "client" =>
              /\ checkOrderResult(op'.order).halt
              /\ log'[i].what = "cancelAllOrders"
              /\ i > 1
              /\ log'[i - 1] = Call("cancelAllOrders", "breach")
       /\ orders' = orders /\ positions' = positions /\ trades' = trades
       /\ Count(log', "emit", "order_filled") = 0
       /\ Count(log', "emit", "position_changed") = 0]_vars

\* C3, its case: a submitOrder was denied on the daily loss, and the breach
\* handler called cancelAllOrders of the exchange client.
C3_Witness ==
  /\ op.name = "submitOrder"
  /\ ~ret.ok /\ ~ret.pending
  /\ ret.reason.kind = "dailyLoss"
  /\ Count(log, "client", "cancelAllOrders") = 1
  /\ Count(log, "client", "placeOrder") = 0

\* C4 as stated: when a non-dry-run submitOrder resumes with an answer of
\* placeOrder that says success, the order is saved with status open, then one
\* order_filled is emitted, and then, if and only if filledSize > 0, the
\* position is updated at avgFillPrice (the request price if absent) and
\* position_changed is emitted; an answer that says failure saves and emits
\* nothing.
C4_SuccessPersistsThenEmits ==
  [][op'.name = "submitOrderResume" =>
       LET order == op'.order
           r == op'.result
           tok == order.tokenId
           id == r.orderId.v
           price == IF r.avgFillPrice.def THEN r.avgFillPrice.v ELSE order.price
           fills == r.filledSize.def /\ r.filledSize.v > 0
       IN  IF r.success
           THEN /\ Len(log') >= 2
                /\ log'[1] = StoreWrite("saveOrder", id, tok)
                /\ id \in DOMAIN orders' /\ orders'[id].status = "open"
                /\ log'[2] = Emit("order_filled", id, tok)
                /\ Count(log', "emit", "order_filled") = 1
                /\ IF fills
                   THEN /\ log' = <<log'[1], log'[2], StoreWrite("savePosition", 0, tok),
                                   Emit("position_changed", 0, tok)>>
                        /\ positions'[tok] =
                             updatePosition(tok, order.side, r.filledSize.v, price)
                   ELSE /\ Len(log') = 2
                        /\ positions' = positions
           ELSE /\ log' = <<>>
                /\ orders' = orders
                /\ positions' = positions]_vars

\* C5: in dry-run mode a submitOrder the risk gate admits returns success with
\* a synthetic order id, and cancelOrder and cancelAllOrders return success;
\* none of them calls the exchange client, changes the store, emits an event or
\* leaves a call awaiting.  A submitOrder the gate denies is still rejected
\* with the gate's reason.
C5_DryRunNoEffect ==
  [][dryRun =>
       LET rc == checkOrderResult(op'.order)
           nothingDone == /\ log' = <<>>
                          /\ tasks' = tasks
                          /\ orders' = orders
                          /\ positions' = positions
                          /\ trades' = trades
       IN  /\ (op'.name = "submitOrder" /\ rc.allowed) =>
                /\ ret'.ok /\ ~ret'.pending
                /\ ret'.orderId.kind = "dry"
                /\ nothingDone
           /\ (op'.name = "submitOrder" /\ ~rc.allowed) =>
                /\ ~ret'.ok /\ ~ret'.pending
                /\ ret'.reason = rc.reason
                /\ ret'.orderId = NoId
           /\ (op'.name \in {"cancelOrder", "cancelAllOrders"}) =>
                /\ ret'.ok /\ ~ret'.pending
                /\ nothingDone]_vars

\* C5, its case: a dry-run submitOrder was admitted and answered with its
\* synthetic id, having done nothing else.
C5_Witness ==
  /\ dryRun
  /\ op.name = "submitOrder"
  /\ ret.ok
  /\ ret.orderId.kind = "dry"
  /\ log = <<>>
  /\ tasks = NoTasks

\* C6 as stated: every risk_breach emitted makes the engine call
\* orderManager.cancelAllOrders exactly once, and when that call completes
\* every order that was live at the emission has status cancelled.
C6_BreachCancelsEveryLiveOrder ==
  [][/\ Cardinality({i \in 1..Len(log') : log'[i] = Call("cancelAllOrders", "breach")})
          = Count(log', "emit", "risk_breach")
     /\ \A i \in 1..Len(log') :
          log'[i] = Emit("risk_breach", 0, "") =>
            /\ i < Len(log')
            /\ log'[i + 1] = Call("cancelAllOrders", "breach")
     /\ (op'.name = "cancelAllOrdersResume" /\ op'.by = "breach") =>
          \A id \in op'.live : orders'[id].status = "cancelled"]_vars

\* C6, amended: every risk_breach emitted makes the engine call
\* orderManager.cancelAllOrders exactly once; when that call completes on a
\* live exchange that confirmed the cancellation, no order that was live at
\* the emission is live any more: it is cancelled, or filled_or_cancelled if
\* syncOrders reconciled it in between.  When the exchange refused, the call
\* changes no status.
C6_BreachCancelsWhenConfirmed ==
  [][/\ Cardinality({i \in 1..Len(log') : log'[i] = Call("cancelAllOrders", "breach")})
          = Count(log', "emit", "risk_breach")
     /\ \A i \in 1..Len(log') :
          log'[i] = Emit("risk_breach", 0, "") =>
            /\ i < Len(log')
            /\ log'[i + 1] = Call("cancelAllOrders", "breach")
     /\ (op'.name = "cancelAllOrdersResume" /\ op'.by = "breach") =>
          IF ret'.ok
          THEN \A id \in op'.live :
                 orders'[id].status =
                   IF orders[id].status = "filled_or_cancelled"
                   THEN "filled_or_cancelled" ELSE "cancelled"
          ELSE orders' = orders]_vars

\* C6, its case: the cancelAllOrders of a breach handler completed, confirmed
\* by the exchange, and the two orders live at the emission are cancelled.
C6_Witness ==
  /\ op.name = "cancelAllOrdersResume"
  /\ op.by = "breach"
  /\ ret.ok
  /\ Cardinality(op.live) = 2
  /\ \A id \in op.live : orders[id].status = "cancelled"

\* C7 as stated: once a successful cancelAllOrders issued by stop() or by the
\* breach handler has completed, and until a later submitOrder is admitted by
\* the risk gate, the store holds no order with status pending or open,
\* whatever submitOrder calls were in flight.
C7_NoLiveOrderAfterCancelAll == cleared => getOpenOrders = {}

\* C8 as stated: a fill on the side of an existing non-zero position, long or
\* short, leaves size = P.size + signed fill, avgEntryPrice =
\* (|P.size| * P.avgEntryPrice + size * price) / |size'|, currentPrice = price
\* and realizedPnl unchanged.
C8_SameSideWeightedAverage ==
  LET order == op.order
      r == op.result
      P == op.existing
      size == r.filledSize.v
      price == fillPrice(order, r)
      Q == positions[order.tokenId]
  IN  (/\ op.name = "submitOrderResume"
       /\ placed(r) /\ filled(r)
       /\ op.had /\ P.size # 0 /\ P.side = order.side) =>
        /\ Q.size = P.size + signed(order.side, size)
        /\ Q.avgEntryPrice =
             RDiv(RAdd(RMul(RInt(Abs(P.size)), P.avgEntryPrice), RInt(size * price)),
                  RInt(Abs(Q.size)))
        /\ Q.currentPrice = price
        /\ Q.realizedPnl = P.realizedPnl

\* C9: a fill on the other side of an existing non-zero position adds
\* size * (price - P.avgEntryPrice) * (+1 if P.side is BUY, -1 if SELL) to
\* realizedPnl, with the whole fill size; the size becomes P.size + signed
\* fill; the side becomes BUY iff that size is >= 0; avgEntryPrice stays, also
\* when the fill crosses zero.
C9_OppositeSideRealizes ==
  LET order == op.order
      r == op.result
      P == op.existing
      size == r.filledSize.v
      price == fillPrice(order, r)
      Q == positions[order.tokenId]
  IN  (/\ op.name = "submitOrderResume"
       /\ placed(r) /\ filled(r)
       /\ op.had /\ P.size # 0 /\ P.side # order.side) =>
        /\ Q.realizedPnl =
             RAdd(P.realizedPnl,
                  RMul(RMul(RInt(size), RSub(RInt(price), P.avgEntryPrice)),
                       RInt(IF P.side = "BUY" THEN 1 ELSE -1)))
        /\ Q.size = P.size + signed(order.side, size)
        /\ (Q.side = "BUY") <=> (Q.size >= 0)
        /\ Q.side \in Sides
        /\ Q.avgEntryPrice = P.avgEntryPrice
        /\ Q.currentPrice = price

\* C9, its case: a SELL fill larger than the long position it met took the
\* position through zero to a short one.
C9_Witness ==
  /\ op.name = "submitOrderResume"
  /\ op.had
  /\ op.existing.size > 0
  /\ op.order.side = "SELL"
  /\ op.order.tokenId \in DOMAIN positions
  /\ positions[op.order.tokenId].size < 0
  /\ positions[op.order.tokenId].side = "SELL"

\* C10: every position the Order Manager has written has unrealizedPnl =
\* (currentPrice - avgEntryPrice) * size, side BUY when size > 0 and side SELL
\* when size < 0.
C10_PositionsWellFormed ==
  \A t \in DOMAIN positions :
    LET p == positions[t]
    IN  /\ p.unrealizedPnl =
             RMul(RSub(RInt(p.currentPrice), p.avgEntryPrice), RInt(p.size))
        /\ p.size > 0 => p.side = "BUY"
        /\ p.size < 0 => p.side = "SELL"

\* C10, its case: a position whose mark differs from its entry price, so
\* that its unrealized PnL is not zero.
C10_Witness ==
  \E t \in DOMAIN positions :
    /\ positions[t].size < 0
    /\ positions[t].unrealizedPnl.n # 0
    /\ op.name = "submitOrderResume"

\* C11: when syncOrders resumes with the list the exchange returned, the
\* orders it sets to filled_or_cancelled are exactly the locally live ones
\* whose id is not in the list; every other row keeps its status, no row
\* changes otherwise, and no row is added for a listed id the store does not
\* know.
C11_SyncMarksAbsentLiveOrders ==
  [][op'.name = "syncOrdersResume" =>
       LET remoteIds == op'.live
       IN  /\ DOMAIN orders' = DOMAIN orders
           /\ \A id \in DOMAIN orders :
                orders'[id] =
                  IF orders[id].status \in {"pending", "open"} /\ id \notin remoteIds
                  THEN [orders[id] EXCEPT !.status = "filled_or_cancelled"]
                  ELSE orders[id]
           /\ positions' = positions /\ trades' = trades]_vars

\* C11, its case: of two live orders the exchange listed the second and an
\* order the store does not know; the first is now filled_or_cancelled, the
\* second still open.
C11_Witness ==
  /\ op.name = "syncOrdersResume"
  /\ DOMAIN orders = {1, 2}
  /\ op.live = {2, 3}
  /\ orders[1].status = "filled_or_cancelled"
  /\ orders[2].status = "open"
  /\ log = <<StoreWrite("updateOrderStatus", 1, "")>>

\* C12 as stated: when a non-dry-run cancelOrder or cancelAllOrders resumes
\* with success from the exchange, the orders it affects are set to cancelled
\* and one order_cancelled is emitted for each of them; when the exchange
\* reports failure, no status changes and nothing is emitted.
C12_CancelMarksAndEmits ==
  [][/\ op'.name = "cancelOrderResume" =>
          IF ret'.ok
          THEN /\ orders' = updateOrderStatus(orders, op'.orderId, "cancelled")
               /\ Count(log', "emit", "order_cancelled") = 1
               /\ \E i \in 1..Len(log') : log'[i] = Emit("order_cancelled", op'.orderId, "")
          ELSE /\ orders' = orders
               /\ CountK(log', "emit") = 0
     /\ op'.name = "cancelAllOrdersResume" =>
          IF ret'.ok
          THEN /\ DOMAIN orders' = DOMAIN orders
               /\ \A id \in DOMAIN orders :
                    orders'[id] =
                      IF id \in getOpenOrders
                      THEN [orders[id] EXCEPT !.status = "cancelled"]
                      ELSE orders[id]
               /\ Count(log', "emit", "order_cancelled") = Cardinality(getOpenOrders)
               /\ \A id \in getOpenOrders :
                    \E i \in 1..Len(log') : log'[i] = Emit("order_cancelled", id, "")
          ELSE /\ orders' = orders
               /\ CountK(log', "emit") = 0]_vars

\* C13: an emit of a type invokes every handler subscribed to the type when
\* emit is called, each exactly once and in the order of their subscription,
\* before it returns, whether or not a handler throws, and it invokes no
\* handler of another type.
C13_EmitInvokesEverySubscriberOnce ==
  [][busOp'.name = "emit" =>
       LET type == busOp'.type
           subs == handlers[type]
           top == SelectSeq(trace', LAMBDA i :
                    /\ i.depth = 0
                    /\ \E k \in 1..Len(subs) : subs[k] = Entry(i.h, i.w))
       IN  /\ \A k \in 1..Len(trace') : trace'[k].type = type
           /\ [k \in 1..Len(top) |-> Entry(top[k].h, top[k].w)] = subs]_vars

\* C14: over any sequence of subscriptions, removals and emits, the handler of
\* a once(type, h) is invoked at most once, also when h itself emits the type
\* again: its closure is out of the Set once it has been invoked.  It is never
\* invoked when the unsubscribe that once returned was called before any
\* invocation.
C14_OnceAtMostOnce ==
  \A w \in 1..Len(wrappers) :
    /\ fired[w] <= 1
    /\ wrappers[w].early => fired[w] = 0
    /\ fired[w] = 1 =>
         \A type \in EventTypes : \A k \in 1..Len(handlers[type]) :
           handlers[type][k].w # w

\* An emit has just invoked the closure of a once whose handler emitted the
\* type again from inside: the nested emit ran another handler, and the
\* closure was invoked once.
C14_Witness ==
  /\ busOp.name = "emit"
  /\ \E w \in 1..Len(wrappers) :
       /\ wrappers[w].h = "emits"
       /\ fired[w] = 1
       /\ \E k \in 1..Len(trace) : trace[k].w = w /\ trace[k].depth = 0
  /\ \E k \in 1..Len(trace) : trace[k].depth = 1

C16_TicksNeverOverlap ==
  LET ticks == {p \in BagToSet(polls) : p.by = "tick"}
  IN  BagCardinality([p \in ticks |-> polls[p]]) <= 1

\* C17: once stop() has returned, and until start() is called again, no timer
\* that a start() acquired is active, so no tick begins, whatever calls of
\* start and stop came before and wherever a start was in its first poll.
C17_NoTimerAfterStop == mdStopped => timers = 0

\* C18: a fetch that fails leaves the timers as they are, and while the
\* service is started with a token subscribed, fair timers and fetches that
\* succeed at some time lead to a step that caches a book for the token and
\* emits an orderbook_update for it.
Updated(token) ==
  /\ mdOp.name = "getOrderBook" /\ mdOp.token = token
  /\ mdOp.result # FetchFailed
  /\ orderBooks[token] = mdOp.result
  /\ mdOp.emitted = <<Emit("orderbook_update", mdOp.result, token)>>

C19_RefreshEmitsIffSerializationDiffers ==
  [][gammaOp'.name = "fetchAndUpdateResume" =>
       LET answer == gammaOp'.answer
           new == extractMarketGroups(answer.events)
           differs == /\ answer.ok /\ ~new.threw
                      /\ serialize(new.value) # serialize(currentGroups)
       IN  /\ differs =>
                /\ currentGroups' = new.value
                /\ gammaOp'.emitted =
                     <<[type |-> "market_groups_updated", groups |-> new.value]>>
           /\ ~differs =>
                /\ currentGroups' = currentGroups
                /\ gammaOp'.emitted = <<>>
           /\ ~gammaOp'.threw
           /\ UNCHANGED <<gammaInterval, gammaTimers>>]_vars

\* A refresh has just received the groups it has stored, in another order:
\* it emitted nothing and kept the stored list.
C19_Witness ==
  /\ gammaOp.name = "fetchAndUpdateResume"
  /\ gammaOp.answer = Fetched(<<Multi, Binary>>)
  /\ currentGroups = extractMarketGroups(<<Binary, Multi>>).value
  /\ gammaOp.emitted = <<>>

\* C20: extractMarketGroups returns, for the events in order, at most one
\* group each, every group with at least two token ids: for a negative-risk
\* event of two or more sub-markets the first token of each sub-market whose
\* token list parses to a non-empty list, if at least two remain; for any
\* other event of exactly one sub-market both tokens, if its list parses to
\* exactly two; for every other event, a malformed payload included, nothing.
Usable(market) ==
  /\ market.clobTokenIds.json = "array"
  /\ Len(market.clobTokenIds.items) > 0

FirstTokens(markets) ==
  LET usable == SelectSeq(markets, Usable)
  IN  [i \in 1..Len(usable) |-> usable[i].clobTokenIds.items[1]]

ClaimedTokens(event) ==
  IF event.negRisk /\ Len(event.markets) >= 2
  THEN IF Len(FirstTokens(event.markets)) >= 2
       THEN <<FirstTokens(event.markets)>> ELSE <<>>
  ELSE IF /\ Len(event.markets) = 1
          /\ event.markets[1].clobTokenIds.json = "array"
          /\ Len(event.markets[1].clobTokenIds.items) = 2
       THEN <<event.markets[1].clobTokenIds.items>> ELSE <<>>

RECURSIVE ClaimedTokenLists(_)
ClaimedTokenLists(events) ==
  IF events = <<>> THEN <<>>
  ELSE ClaimedTokens(Head(events)) \o ClaimedTokenLists(Tail(events))

C20_ExtractYieldsClaimedGroups ==
  gammaOp.name = "extractMarketGroups" =>
    /\ ~gammaOp.threw
    /\ [i \in 1..Len(gammaOp.returned) |-> gammaOp.returned[i].tokenIds]
         = ClaimedTokenLists(gammaOp.answer.events)
    /\ \A i \in 1..Len(gammaOp.returned) : Len(gammaOp.returned[i].tokenIds) >= 2

-----------------------------------------------------------------------------
\* The engine and its strategies.  In SpecStrategies every step sets op', and
\* the steps of the engine set it with by = "engine".

\* C21: the engine invokes evaluate on a strategy for an orderbook_update only
\* if, when the event is handled, the engine is running, the Risk Manager is
\* not halted and the strategy is enabled; when the engine is not running or
\* the Risk Manager is halted, the event causes no evaluation, no
\* strategy_signal and no submitOrder.
C21_EvaluatesOnlyRunningUnhaltedEnabled ==
  [][(op'.by = "engine" /\ engOp'.name = "orderbook_update") =>
       /\ \A i \in 1..Len(engOp'.evaluated) :
            /\ running /\ ~halted
            /\ \E j \in 1..Len(strategies) :
                  strategies[j].name = engOp'.evaluated[i] /\ strategies[j].enabled
       /\ (~running \/ halted) =>
            /\ engOp'.evaluated = <<>>
            /\ engOp'.emitted = <<>>
            /\ op'.name # "submitOrder"
            /\ log' = <<>>
            /\ tasks' = tasks /\ evals' = evals
            /\ orders' = orders /\ halted' = halted]_vars

\* C21, its case: an order book arrived while the engine was running with an
\* enabled strategy and the Risk Manager halted, and nothing was evaluated.
C21_Witness ==
  /\ op.by = "engine" /\ op.name = "orderbook_update"
  /\ engOp.name = "orderbook_update"
  /\ running /\ halted
  /\ \E j \in 1..Len(strategies) : strategies[j].enabled
  /\ engOp.evaluated = <<>>

\* The signals of an update that the claims expect to be executed: those of
\* confidence above one half that the enabled strategies returned, strategy
\* after strategy in the order of registration, each list in its own order.
RECURSIVE Qualifying(_, _)
Qualifying(strats, answers) ==
  IF strats = <<>> THEN <<>>
  ELSE LET strategy == Head(strats)
           answer == answers[strategy.name]
           own == IF strategy.enabled /\ ~answer.threw
                  THEN SelectSeq(answer.value, LAMBDA signal : signal.confidence > 50)
                  ELSE <<>>
       IN  own \o Qualifying(Tail(strats), answers)

GtcOrder(signal) ==
  [tokenId |-> signal.tokenId, side |-> signal.side, price |-> signal.targetPrice,
   size |-> signal.size, type |-> "GTC"]

\* C22: for each orderbook_update it evaluates, the engine calls submitOrder
\* exactly once for each returned signal of confidence > 0.5, one after
\* another in the order the strategies returned them, as a GTC order with the
\* signal's token, side, target price and size; a signal of confidence <= 0.5
\* never reaches the Order Manager.  Step by step: the handler submits the
\* first qualifying signal and nothing if there is none; each resumption
\* after a submitOrder has returned submits the next one, and the evaluation
\* ends only after the last; no other step of the engine calls submitOrder.
C22_SubmitsEachQualifyingSignalInOrder ==
  [][/\ (op'.by = "engine" /\ engOp'.name = "orderbook_update" /\ ~shortCircuits) =>
          LET q == Qualifying(strategies, engOp'.answers)
          IN  IF q = <<>>
              THEN op'.name # "submitOrder" /\ evals' = evals /\ tasks' = tasks
              ELSE /\ op'.name = "submitOrder" /\ op'.order = GtcOrder(q[1])
                   /\ \E awaiting \in BOOLEAN :
                         evals' = evals (+) One(Eval(q, 1, awaiting))
     /\ (op'.by = "engine" /\ engOp'.name = "evaluateStrategiesResume") =>
          \E e \in BagToSet(evals) :
             /\ ~e.awaiting
             /\ IF e.next < Len(e.signals)
                THEN /\ op'.name = "submitOrder"
                     /\ op'.order = GtcOrder(e.signals[e.next + 1])
                     /\ \E awaiting \in BOOLEAN :
                           evals' = (evals (-) One(e))
                                      (+) One(Eval(e.signals, e.next + 1, awaiting))
                ELSE /\ op'.name # "submitOrder"
                     /\ evals' = evals (-) One(e)
     /\ (op'.by = "engine" /\ engOp'.name = "executeSignalResume") =>
          \E e \in BagToSet(evals) :
             /\ e.awaiting /\ op'.order = GtcOrder(e.signals[e.next])
             /\ evals' = (evals (-) One(e)) (+) One(Eval(e.signals, e.next, FALSE))
     /\ (op'.name = "submitOrder" /\ op'.by = "engine") =>
          engOp'.name \in {"orderbook_update", "evaluateStrategiesResume"}
     /\ op'.by # "engine" => evals' = evals]_vars

\* C22, its case: an evaluation has ended after it submitted, in this order,
\* the signal of the first strategy and the one signal of confidence above
\* one half of the second: the other signal of the second, of confidence one
\* half, was not submitted.
C22_Witness ==
  /\ op.by = "engine" /\ op.name = "evaluateStrategiesResume"
  /\ engOp.name = "evaluateStrategiesResume"
  /\ engOp.signals = <<Strong40, Strong60>>
  /\ evals = EmptyBag

EnabledNames(strats) ==
  LET enabled == SelectSeq(strats, LAMBDA strategy : strategy.enabled)
  IN  [i \in 1..Len(enabled) |-> enabled[i].name]

\* C23: if evaluate of one strategy throws during an orderbook_update, every
\* other enabled strategy is still evaluated for that update and its
\* qualifying signals are still executed; the exception does not escape the
\* engine's handler.
C23_ThrowingStrategyStopsNoOther ==
  [][(/\ op'.by = "engine" /\ engOp'.name = "orderbook_update" /\ ~shortCircuits
      /\ \E i \in 1..Len(strategies) :
            strategies[i].enabled /\ engOp'.answers[strategies[i].name].threw) =>
       LET q == Qualifying(strategies, engOp'.answers)
       IN  /\ engOp'.evaluated = EnabledNames(strategies)
           /\ ~engOp'.escaped
           /\ q # <<>> =>
                /\ engOp'.signals = q
                /\ op'.name = "submitOrder" /\ op'.order = GtcOrder(q[1])
                /\ \E e \in BagToSet(evals') : e.signals = q /\ e.next = 1]_vars

\* C23, its case: evaluate of the first strategy threw, the second was
\* evaluated all the same, and its signal was submitted.
C23_Witness ==
  /\ op.by = "engine" /\ op.name = "submitOrder"
  /\ engOp.name = "orderbook_update"
  /\ engOp.answers["s1"].threw
  /\ engOp.evaluated = <<"s1", "s2">>
  /\ engOp.signals = <<Strong40>>
  /\ op.order = GtcOrder(Strong40)

\* C29: every order_filled event on the bus makes the engine call
\* onOrderFilled exactly once on every registered strategy, enabled or not,
\* with the order id, the token, the request price and the filled size (the
\* request size when the answer has no filled size), so that total_trades of
\* each registered strategy grows by exactly one per order the Order Manager
\* placed (an answer of success with an order id, the one case in which it
\* emits order_filled), and by nothing in any other step.
C29_OrderFilledReachesEveryStrategy ==
  [][LET n == IF op'.name = "submitOrderResume"
              THEN Count(log', "emit", "order_filled") ELSE 0
         result == op'.result
     IN  /\ Len(strategies') >= Len(strategies)
         /\ \A i \in 1..Len(strategies) :
              strategies'[i].name = strategies[i].name =>
                strategies'[i].totalTrades = strategies[i].totalTrades + n
         /\ op'.name = "submitOrderResume" =>
              /\ n = IF result.success /\ result.orderId.def THEN 1 ELSE 0
              /\ strategies' = [i \in 1..Len(strategies) |->
                                  [strategies[i] EXCEPT !.totalTrades = @ + n]]
              /\ engOp'.calls =
                   IF n = 0 THEN <<>>
                   ELSE [i \in 1..Len(strategies) |->
                           [strategy |-> strategies[i].name,
                            orderId |-> result.orderId.v,
                            tokenId |-> op'.order.tokenId,
                            price |-> op'.order.price,
                            size |-> IF result.filledSize.def THEN result.filledSize.v
                                     ELSE op'.order.size]]]_vars

\* C29, its case: an order was placed and order_filled emitted while one of
\* two registered strategies was disabled and the answer had no filled size:
\* onOrderFilled was called on both with the request size.
C29_Witness ==
  /\ op.name = "submitOrderResume" /\ op.by = "engine"
  /\ Count(log, "emit", "order_filled") = 1
  /\ ~op.result.filledSize.def
  /\ Len(strategies) = 2 /\ Len(engOp.calls) = 2
  /\ \E i \in 1..2 : ~strategies[i].enabled
  /\ \A i \in 1..2 : strategies[i].totalTrades = 1 /\ engOp.calls[i].size = op.order.size

-----------------------------------------------------------------------------
\* The engine's start and stop.  In SpecLifecycle every step is a step of
\* start() or stop() (or a registration), and engOp'.did lists the calls
\* that execution has made so far, the ones of this step last.

RegisteredNames == [i \in 1..Len(strategies) |-> strategies[i].name]

ExpectedStart ==
  [i \in 1..Len(strategies) |-> Did("initialize", RegisteredNames[i])]
    \o <<Did("marketData.start", ""), Did("syncOrders", ""), Did("running = true", "")>>

ExpectedStop ==
  <<Did("running = false", ""), Did("cancelAllOrders", ""), Did("marketData.stop", "")>>
    \o [i \in 1..Len(strategies) |-> Did("shutdown", RegisteredNames[i])]

IsPrefix(s, t) == Len(s) <= Len(t) /\ \A i \in 1..Len(s) : s[i] = t[i]

Last(s) == s[Len(s)]

\* C24: start() performs, in this order: initialize of every registered
\* strategy, start of the market data service, one syncOrders(), and only
\* then sets running to true; stop() performs, in this order: clear running,
\* cancelAllOrders, stop of the market data service, shutdown of every
\* strategy.  Every execution has made a prefix of its sequence, an execution
\* that ends has made all of it, and what the services see agrees: the first
\* poll of the market data service begins in the step that records
\* marketData.start, getOpenOrders is called once the service has set its
\* timer, running becomes true only when syncOrders returns to start, and
\* the timer is cleared only after cancelAllOrders has returned.
C24_StartAndStopInOrder ==
  [][/\ engOp'.name \in {"start", "startResume", "started"} =>
          /\ IsPrefix(engOp'.did, ExpectedStart)
          /\ engOp'.name = "started" <=> engOp'.did = ExpectedStart
     /\ engOp'.name \in {"stop", "stopResume", "stopped"} =>
          /\ IsPrefix(engOp'.did, ExpectedStop)
          /\ engOp'.name = "stopped" => engOp'.did = ExpectedStop
          /\ engOp'.did = ExpectedStop => engOp'.name \in {"stopResume", "stopped"}
     /\ \A r \in BagToSet(runs') :
          /\ r.did # <<>>
          /\ r.kind = "start" => IsPrefix(r.did, ExpectedStart) /\ r.did # ExpectedStart
          /\ r.kind = "stop" => IsPrefix(r.did, ExpectedStop)
     /\ BagCardinality(polls') > BagCardinality(polls) =>
          /\ engOp'.name \in {"start", "startResume"}
          /\ Last(engOp'.did) = Did("marketData.start", "")
     /\ Count(log', "client", "getOpenOrders") > 0 =>
          /\ Count(log', "client", "getOpenOrders") = 1
          /\ Last(engOp'.did) = Did("syncOrders", "")
          /\ timers' = timers + 1
     /\ running' # running =>
          IF running'
          THEN /\ engOp'.name = "started"
               /\ op'.name = "syncOrdersResume" /\ op'.by = "start"
          ELSE /\ engOp'.name = "stop"
               /\ engOp'.did = <<Did("running = false", ""), Did("cancelAllOrders", "")>>
               /\ Count(log', "call", "cancelAllOrders") = 1
               /\ timers' = timers /\ mdStopped' = mdStopped
     /\ Count(log', "call", "cancelAllOrders") > 0 => running /\ ~running'
     /\ (timers' < timers \/ (mdStopped' /\ ~mdStopped)) =>
          /\ engOp'.name \in {"stopResume", "stopped"}
          /\ Len(engOp'.did) >= 3 /\ engOp'.did[3] = Did("marketData.stop", "")
          /\ Len(engOp'.did) <= 4
          /\ op'.name \in {"cancelAllOrdersResume", "stopResume"}]_vars

\* C24, its case: a stop() has ended on an engine with two strategies that a
\* start() had brought to running: it cleared running, called
\* cancelAllOrders, stopped the market data service and shut both down.
C24_Witness ==
  /\ engOp.name = "stopped"
  /\ Len(strategies) = 2
  /\ engOp.did = <<Did("running = false", ""), Did("cancelAllOrders", ""),
                   Did("marketData.stop", ""), Did("shutdown", "s1"),
                   Did("shutdown", "s2")>>
  /\ ~running /\ mdStopped

\* C30: every fill the Order Manager processes (a successful placement with
\* filled_size > 0) adds a row to the trades table with the fill's side, size
\* and price, so that getTrades returns it and getDailyPnl of that day moves
\* by its signed notional.
C30_FillPersistsTrade ==
  [][(/\ op'.name = "submitOrderResume"
      /\ placed(op'.result) /\ filled(op'.result)) =>
       LET order == op'.order
           size == op'.result.filledSize.v
           price == fillPrice(order, op'.result)
       IN  /\ trades' = Append(trades, [side |-> order.side, size |-> size,
                                        price |-> price, today |-> TRUE])
           /\ getDailyPnl' = getDailyPnl + (IF order.side = "BUY" THEN -(size * price)
                                            ELSE size * price)]_vars

\* The last evaluate of the arbitrage strategy: the group of its trigger
\* token, the book it read for each token of the group, and what changed in
\* the counters.
Evaluating == arbOp.name = "evaluate" /\ arbEnabled

TriggerGroup == tokenToGroup[arbOp.tokenId]

GroupTokens == TriggerGroup.v.tokenIds

BookRead(tokenId) ==
  IF tokenId = arbOp.tokenId THEN arbOp.orderBook ELSE arbOp.cached[tokenId]

BooksRead == [i \in 1..Len(GroupTokens) |-> BookRead(GroupTokens[i])]

Older(book) == arbOp.now - book.timestamp > config.maxStalenessMs

AllGathered ==
  /\ TriggerGroup.def
  /\ \A i \in 1..Len(GroupTokens) : BooksRead[i].present /\ ~Older(BooksRead[i])

Advanced(counter) == stats[counter] - arbOp.before[counter]

OnlyAdvanced(counters) ==
  \A c \in DOMAIN stats \ ({"evaluations"} \cup counters) : Advanced(c) = 0

IsSimple(signal) == signal.reason = "Simple arb"

IsBregman(signal) == signal.reason = "Bregman projection"

\* C25: one evaluate returns no signal, or simple-arb signals only, one per
\* token of the group, or one Bregman signal, and that one only when the
\* simple-arb check of the same books produced nothing; at most one of
\* simpleArbSignals and bregmanArbSignals advances.
C25_SimpleOrBregmanNeverBoth ==
  arbOp.name = "evaluate" =>
    LET signals == arbOp.signals
    IN  /\ \/ /\ signals = <<>>
              /\ Advanced("simpleArbSignals") = 0 /\ Advanced("bregmanArbSignals") = 0
           \/ /\ signals # <<>>
              /\ \A i \in 1..Len(signals) : IsSimple(signals[i])
              /\ Len(signals) = Len(GroupTokens)
              /\ \A i \in 1..Len(signals) : signals[i].tokenId = GroupTokens[i]
              /\ Advanced("simpleArbSignals") = Len(signals)
              /\ Advanced("bregmanArbSignals") = 0
           \/ /\ Len(signals) = 1 /\ IsBregman(signals[1])
              /\ checkSimpleArb(TriggerGroup.v, BooksRead, arbOp.held) = <<>>
              /\ Advanced("bregmanArbSignals") = 1
              /\ Advanced("simpleArbSignals") = 0
        /\ Advanced("simpleArbSignals") = 0 \/ Advanced("bregmanArbSignals") = 0

\* C25, its case: simple-arb signals were returned for books whose mid prices
\* diverge enough for a Bregman signal as well.
C25_Witness ==
  /\ arbOp.name = "evaluate"
  /\ arbOp.signals # <<>> /\ IsSimple(arbOp.signals[1])
  /\ checkBregmanArb(TriggerGroup.v, BooksRead, arbOp.held) # <<>>
  /\ stats.simpleArbSignals = 2 /\ stats.bregmanArbSignals = 0

\* C26: when the simple-arb path emits, there is one BUY signal per token of
\* the group, each at that token's best ask in the books read, all of one
\* size, which is positive, at most orderSize, at most every token's best-ask
\* size and at most maxPositionSize minus the signed position of every token.
C26_SimpleArbBasket ==
  (arbOp.name = "evaluate" /\ arbOp.signals # <<>> /\ IsSimple(arbOp.signals[1])) =>
    LET signals == arbOp.signals
        size == signals[1].size
    IN  /\ Len(signals) = Len(GroupTokens)
        /\ size.of = "1" /\ size.d = 1
        /\ 0 < size.n /\ size.n <= config.orderSize
        /\ \A i \in 1..Len(signals) :
             /\ signals[i].tokenId = GroupTokens[i]
             /\ signals[i].side = "BUY"
             /\ signals[i].size = size
             /\ BooksRead[i].asks # <<>>
             /\ signals[i].targetPrice = BooksRead[i].asks[1].price
             /\ size.n <= BooksRead[i].asks[1].size
             /\ size.n <= config.maxPositionSize - sizeHeld(arbOp.held, GroupTokens[i])

\* C26, its case: a basket of three whose size is what the position held in
\* one of its tokens leaves, below orderSize and every best-ask size.
C26_Witness ==
  /\ arbOp.name = "evaluate"
  /\ Len(arbOp.signals) = 3 /\ IsSimple(arbOp.signals[1])
  /\ sizeHeld(arbOp.held, "t1") = 45
  /\ arbOp.signals[3].size = Exact(RInt(5))
  /\ \A i \in 1..3 : BooksRead[i].asks[1].size = 30

SkipCounters == {"skippedNoGroup", "skippedMissingBook", "skippedStaleBook"}

\* An evaluate that returned nothing and advanced this counter, by one, and
\* no other counter than evaluations.
Skipped(counter) ==
  /\ arbOp.signals = <<>>
  /\ Advanced(counter) = 1
  /\ OnlyAdvanced({counter})

SiblingMissing ==
  \E i \in 1..Len(GroupTokens) :
    GroupTokens[i] # arbOp.tokenId /\ ~BooksRead[i].present

SomeBookOlder ==
  \E i \in 1..Len(GroupTokens) : BooksRead[i].present /\ Older(BooksRead[i])

\* The positions, in the order of the group, of the books that are missing
\* or older than maxStalenessMs.
Unusable ==
  {i \in 1..Len(GroupTokens) : ~BooksRead[i].present \/ Older(BooksRead[i])}

MidsRead == [i \in 1..Len(GroupTokens) |-> BooksRead[i].midPrice]

\* The implied probabilities q of the books read: the mid prices over their sum.
Implied == [i \in 1..Len(GroupTokens) |-> Rat(MidsRead[i], SumSeq(MidsRead))]

\* The first outcome, in group order, with the smallest implied probability.
Underpriced ==
  CHOOSE i \in 1..Len(GroupTokens) :
    /\ \A j \in 1..Len(GroupTokens) : MidsRead[i] <= MidsRead[j]
    /\ \A j \in 1..(i - 1) : MidsRead[i] < MidsRead[j]

\* min(base_size * min(D / threshold, 2), best-ask size, max_position_size -
\* position) for the underpriced outcome, D being at least the threshold.
BregmanSize ==
  LET tokenId == GroupTokens[Underpriced]
      room == MinOf({BooksRead[Underpriced].asks[1].size,
                     config.maxPositionSize - sizeHeld(arbOp.held, tokenId)})
  IN  IF klDivAtLeast(Implied, RMul(RInt(2), config.divergenceThreshold))
      THEN Exact(RInt(MinOf({2 * config.orderSize, room})))
      ELSE IF room <= config.orderSize THEN Exact(RInt(room))
      ELSE TimesKl(RDiv(RInt(config.orderSize), config.divergenceThreshold))

\* C28: when the simple-arb check yields nothing and the divergence D of the
\* normalized mid prices from the uniform prior is at least the threshold,
\* evaluate returns one BUY signal for the first outcome with the smallest
\* implied probability, at its best ask, of size min(base * min(D/threshold,
\* 2), best-ask size, maxPositionSize - position) if that is positive, and
\* bregmanArbSignals advances by one; when D is below the threshold it returns
\* nothing and noArbFound advances by one.
C28_BregmanSignal ==
  (/\ Evaluating /\ AllGathered
   /\ checkSimpleArb(TriggerGroup.v, BooksRead, arbOp.held) = <<>>
   /\ \A i \in 1..Len(GroupTokens) : MidsRead[i] > 0) =>
    IF klDivAtLeast(Implied, config.divergenceThreshold)
    THEN (BooksRead[Underpriced].asks # <<>> /\ BregmanSize.n > 0) =>
           /\ Len(arbOp.signals) = 1
           /\ arbOp.signals[1].tokenId = GroupTokens[Underpriced]
           /\ arbOp.signals[1].side = "BUY"
           /\ arbOp.signals[1].targetPrice = BooksRead[Underpriced].asks[1].price
           /\ arbOp.signals[1].size = BregmanSize
           /\ Advanced("bregmanArbSignals") = 1
           /\ OnlyAdvanced({"bregmanArbSignals"})
    ELSE /\ arbOp.signals = <<>>
         /\ Advanced("noArbFound") = 1
         /\ OnlyAdvanced({"noArbFound"})

\* C28, its case: three outcomes of which the first two have the same,
\* smallest mid price: the signal is for the first, at its best ask, of twice
\* the base size.
C28_Witness ==
  /\ Evaluating /\ AllGathered
  /\ Len(GroupTokens) = 3
  /\ MidsRead[1] = MidsRead[2] /\ MidsRead[1] < MidsRead[3]
  /\ Len(arbOp.signals) = 1 /\ IsBregman(arbOp.signals[1])
  /\ arbOp.signals[1].tokenId = GroupTokens[1]
  /\ arbOp.signals[1].targetPrice = BooksRead[1].asks[1].price
  /\ arbOp.signals[1].size = Exact(RInt(2 * config.orderSize))
  /\ stats.bregmanArbSignals = 1

-----------------------------------------------------------------------------
\* The order of the checks of checkOrder.

Checking == op'.name = "checkOrder"

\* What each of the five checks finds for the order of a checkOrder step, in
\* the state the step starts from.
Failing(order) ==
  <<halted,
    order.price * order.size > limits.maxPositionSize,
    getExposureTotal + order.price * order.size > limits.maxTotalExposure,
    Cardinality(getOpenOrders) >= limits.maxOpenOrders,
    getDailyPnl < -limits.maxDailyLoss>>

CheckKinds == <<"halted", "maxPositionSize", "maxTotalExposure", "maxOpenOrders", "dailyLoss">>

FirstFailing(order) ==
  IF \E i \in 1..5 : Failing(order)[i]
  THEN CHOOSE i \in 1..5 : Failing(order)[i] /\ \A j \in 1..(i - 1) : ~Failing(order)[j]
  ELSE 0

-----------------------------------------------------------------------------
\* The token-to-group index of the arbitrage strategy.

Holds(group, tokenId) == \E i \in 1..Len(group.tokenIds) : group.tokenIds[i] = tokenId

InList(groups, group) == \E i \in 1..Len(groups) : groups[i] = group

\* C32: the index holds a token if and only if the token occurs in a group of
\* the current list, and maps it to a group of that list which holds it, so
\* nothing of a replaced list survives; every evaluate looks its trigger token
\* up in the index of one complete list: it counts skippedNoGroup exactly when
\* no group of the current list holds the token.
C32_IndexOfCurrentGroups ==
  /\ \A t \in ArbTokens :
       /\ tokenToGroup[t].def <=> \E i \in 1..Len(marketGroups) : Holds(marketGroups[i], t)
       /\ tokenToGroup[t].def =>
            InList(marketGroups, tokenToGroup[t].v) /\ Holds(tokenToGroup[t].v, t)
  /\ Evaluating =>
       (stats.skippedNoGroup = arbOp.before.skippedNoGroup + 1
          <=> \A i \in 1..Len(marketGroups) : ~Holds(marketGroups[i], arbOp.tokenId))

\* C32, its case: a list whose groups held t3 was replaced by one that does
\* not hold it, and the index has no entry for t3 and new entries for the rest.
C32_Witness ==
  /\ arbOp.name = "updateMarketGroups"
  /\ \E i \in 1..Len(arbOp.replaced) : Holds(arbOp.replaced[i], "t3")
  /\ \A i \in 1..Len(marketGroups) : ~Holds(marketGroups[i], "t3")
  /\ ~tokenToGroup["t3"].def
  /\ tokenToGroup["t1"].def
  /\ ~InList(arbOp.replaced, tokenToGroup["t1"].v)

-----------------------------------------------------------------------------
\* The limits of the risk gate under submitOrder calls that overlap.

\* C33 as stated: on a live exchange the number of live orders in the store
\* never exceeds maxOpenOrders, however the submitOrder calls interleave.
C33_OpenOrdersWithinLimit ==
  ~dryRun => Cardinality(getOpenOrders) <= limits.maxOpenOrders

\* No fill was booked above the price of an order for its token.
FilledWithinPrice ==
  \A t \in DOMAIN positions, id \in DOMAIN orders :
    orders[id].tokenId = t => positions[t].currentPrice <= orders[id].price

\* C34 as stated: after the submitOrder calls the gate admitted and their
\* fills (at no more than the price of the order), getExposure().total is at
\* most maxTotalExposure, also when an order has filled and its record is
\* still open.
C34_ExposureWithinLimit ==
  FilledWithinPrice => getExposureTotal <= limits.maxTotalExposure

-----------------------------------------------------------------------------
\* The realized PnL of a position over its life.

\* C40 as stated: the realized PnL booked for a token is never discarded: a
\* fill on the other side of a non-zero position adds its realized amount, and
\* every other fill, the fill that opens the position again after it was
\* closed to 0 included, leaves realizedPnl as it was.
C40_RealizedPnlKept ==
  LET order == op.order
      r == op.result
      P == op.existing
      Q == positions[order.tokenId]
  IN  (/\ op.name = "submitOrderResume"
       /\ placed(r) /\ filled(r)
       /\ op.had) =>
        Q.realizedPnl =
          IF P.size # 0 /\ P.side # order.side
          THEN RAdd(P.realizedPnl,
                    RMul(RMul(RInt(r.filledSize.v),
                              RSub(RInt(fillPrice(order, r)), P.avgEntryPrice)),
                         RInt(IF P.side = "BUY" THEN 1 ELSE -1)))
          ELSE P.realizedPnl

-----------------------------------------------------------------------------
\* Reconciliation under submitOrder calls that complete while it waits.

\* C37 as stated: syncOrders never marks filled_or_cancelled an order that is
\* open on the exchange when syncOrders finishes, an order whose submitOrder
\* completed while syncOrders awaited the list of the exchange included.
C37_SyncSparesOpenOrders ==
  [][op'.name = "syncOrdersResume" =>
       \A id \in DOMAIN orders :
         (orders[id].status # "filled_or_cancelled"
            /\ orders'[id].status = "filled_or_cancelled") => id \notin openOnExchange']_vars

-----------------------------------------------------------------------------
\* The market data of a token that is no longer subscribed.

\* C38 as stated: from the return of unsubscribe(t) until t is subscribed
\* again, getOrderBook(t) answers null and no orderbook_update for t is
\* emitted, also while a poll that has dispatched a fetch for t is in flight.
C38_UnsubscribedTokenIsSilent ==
  \A t \in MdTokens :
    t \notin subscriptions =>
      /\ orderBooks[t] = NoBook
      /\ ~(mdOp.name = "getOrderBook" /\ mdOp.token = t /\ mdOp.emitted # <<>>)

-----------------------------------------------------------------------------
\* Refreshes that overlap.

\* C39 as stated: when two refreshes overlap, the stored group list and the
\* last market_groups_updated are those of the refresh that began last: when
\* the refresh that began last has received its groups, the answer to the
\* older refresh, arriving after it, changes nothing and emits nothing.
C39_LastStartedRefreshWins ==
  [][(/\ gammaOp.name = "fetchAndUpdateResume" /\ gammaOp.by = "call"
      /\ gammaOp.answer.ok /\ ~fetchMarketGroups(gammaOp.answer).threw
      /\ gammaOp'.name = "fetchAndUpdateResume" /\ gammaOp'.by = "start") =>
       /\ currentGroups' = currentGroups
       /\ gammaOp'.emitted = <<>>]_vars

-----------------------------------------------------------------------------
\* The arbitrage strategy trading through the engine.

\* C35 as stated: the signed size of the position the signals of the
\* arbitrage strategy accumulate in a token never exceeds maxPositionSize,
\* whatever the evaluations and the fills, evaluations of the same group while
\* earlier orders are being placed or rest unfilled included.
C35_PositionWithinCapacity ==
  \A t \in DOMAIN positions : positions[t].size <= config.maxPositionSize

\* The legs of a basket: the orders of the signals of one evaluation.
Leg(signals, k) == IF k \in 1..Len(signals) THEN orderOf(signals[k]) ELSE NoOrder

\* C36 as stated: of the legs of one simple-arb basket the engine executes,
\* submitOrder accepts all or none: when a leg has just been accepted and
\* the execution goes on with the next leg of the basket, no other execution
\* being in flight, that leg is not rejected.
C36_BasketAllOrNothing ==
  [][(/\ op.name = "submitOrderResume" /\ op.by = "engine" /\ ret.ok
      /\ BagCardinality(evals) = 1
      /\ engOp'.name = "evaluateStrategiesResume"
      /\ op'.name = "submitOrder"
      /\ \E k \in 1..Len(engOp'.signals) :
           /\ op.order = Leg(engOp'.signals, k)
           /\ op'.order = Leg(engOp'.signals, k + 1)) =>
       ret'.pending \/ ret'.ok]_vars


====
